---- MODULE Spec2Model ----
(***************************************************************************)
(* Content publishing and versioning engine of the portfolio CMS:          *)
(* lib/server/admin/projectService.ts, lib/server/mediaService.ts,         *)
(* lib/utils/text.ts and the mongoose schemas of lib/models.               *)
(*                                                                         *)
(* A string is a sequence of one-character strings, so that slugify,       *)
(* the validator's patterns and the length limits are computed as the      *)
(* code computes them.                                                     *)
(***************************************************************************)
EXTENDS Integers, Sequences, FiniteSets, TLC

(***************************************************************************)
(* Text helpers (lib/utils/text.ts).                                       *)
(***************************************************************************)
Alphabet ==
  <<"a", "b", "c", "d", "e", "f", "g", "h", "i", "j", "k", "l", "m",
    "n", "o", "p", "q", "r", "s", "t", "u", "v", "w", "x", "y", "z">>
UpperAlphabet ==
  <<"A", "B", "C", "D", "E", "F", "G", "H", "I", "J", "K", "L", "M",
    "N", "O", "P", "Q", "R", "S", "T", "U", "V", "W", "X", "Y", "Z">>
Lowers == {Alphabet[i] : i \in DOMAIN Alphabet}
Uppers == {UpperAlphabet[i] : i \in DOMAIN UpperAlphabet}
Digits == {"0", "1", "2", "3", "4", "5", "6", "7", "8", "9"}

\* String.prototype.toLowerCase
lowerChar(c) ==
  IF c \in Uppers
    THEN Alphabet[CHOOSE i \in DOMAIN UpperAlphabet : UpperAlphabet[i] = c]
    ELSE c
toLowerCase(s) == [i \in DOMAIN s |-> lowerChar(s[i])]

\* .normalize("NFD").replace(/[\u0300-\u036f]/g, ""): an accented letter
\* loses its mark.  "e_acute" stands for the single character U+00E9.
stripMarks(s) == [i \in DOMAIN s |-> IF s[i] = "e_acute" THEN "e" ELSE s[i]]

IsSpace(c) == c = " "

RECURSIVE trimStart(_)
trimStart(s) ==
  IF s # <<>> /\ IsSpace(Head(s)) THEN trimStart(Tail(s)) ELSE s

RECURSIVE trimEnd(_)
trimEnd(s) ==
  IF s # <<>> /\ IsSpace(s[Len(s)]) THEN trimEnd(SubSeq(s, 1, Len(s) - 1)) ELSE s

\* String.prototype.trim
trim(s) == trimEnd(trimStart(s))

IsSlugChar(c) == c \in Lowers \cup Digits

\* .replace(/[^a-z0-9]+/g, "-"): every maximal run of other characters
\* becomes one hyphen.
RECURSIVE replaceRuns(_, _)
replaceRuns(s, inRun) ==
  IF s = <<>> THEN <<>>
  ELSE IF IsSlugChar(Head(s)) THEN <<Head(s)>> \o replaceRuns(Tail(s), FALSE)
  ELSE IF inRun THEN replaceRuns(Tail(s), TRUE)
  ELSE <<"-">> \o replaceRuns(Tail(s), TRUE)

\* .replace(/-{2,}/g, "-")
RECURSIVE collapseHyphens(_)
collapseHyphens(s) ==
  IF Len(s) < 2 THEN s
  ELSE IF s[1] = "-" /\ s[2] = "-" THEN collapseHyphens(Tail(s))
  ELSE <<Head(s)>> \o collapseHyphens(Tail(s))

\* .replace(/(^-|-$)/g, ""): one hyphen at the start and one at the end.
stripEdgeHyphens(s) ==
  LET a == IF s # <<>> /\ s[1] = "-" THEN Tail(s) ELSE s
  IN  IF a # <<>> /\ a[Len(a)] = "-" THEN SubSeq(a, 1, Len(a) - 1) ELSE a

\* .slice(0, n)
slice(s, n) == IF Len(s) <= n THEN s ELSE SubSeq(s, 1, n)

SlugMaxLength == 60

slugifyTo(value, maxLength) ==
  slice(stripEdgeHyphens(collapseHyphens(
          replaceRuns(trim(stripMarks(toLowerCase(value))), FALSE))), maxLength)

slugify(value) == slugifyTo(value, SlugMaxLength)

\* Decimal rendering of a template literal's number, `${attempt}`.
DigitOf(n) ==
  CASE n = 0 -> "0" [] n = 1 -> "1" [] n = 2 -> "2" [] n = 3 -> "3"
    [] n = 4 -> "4" [] n = 5 -> "5" [] n = 6 -> "6" [] n = 7 -> "7"
    [] n = 8 -> "8" [] n = 9 -> "9"

RECURSIVE numberToString(_)
numberToString(n) ==
  IF n < 10 THEN <<DigitOf(n)>>
  ELSE numberToString(n \div 10) \o <<DigitOf(n % 10)>>

\* n copies of the character c.
Rep(c, n) == [i \in 1..n |-> c]

\* /^[a-z0-9-]+$/
matchesSlugPattern(s) ==
  /\ s # <<>>
  /\ \A i \in 1..Len(s) : IsSlugChar(s[i]) \/ s[i] = "-"

(***************************************************************************)
(* ensureUniqueSlug: the base, then base-1, base-2, ... until no project   *)
(* other than ignoreId holds the candidate.  `slugs` are the slugs of the  *)
(* projects the query can see, `now36` is Date.now().toString(36).         *)
(***************************************************************************)
RECURSIVE slugLoop(_, _, _, _)
slugLoop(base, candidate, attempt, slugs) ==
  IF candidate \notin slugs THEN candidate
  ELSE slugLoop(base, base \o <<"-">> \o numberToString(attempt),
                attempt + 1, slugs)

uniqueSlugFrom(desiredSlug, slugs, now36) ==
  LET base == slugify(desiredSlug)
      first == IF base # <<>> THEN base
               ELSE <<"p", "r", "o", "j", "e", "c", "t", "-">> \o now36
  IN  slugLoop(base, first, 1, slugs)

(***************************************************************************)
(* Errors.  An error carries what isTransientTransactionError reads: the   *)
(* driver's labels and its code.                                           *)
(***************************************************************************)
NoError == [name |-> "none", labels |-> {}, code |-> 0, details |-> <<>>]
ProjectValidationError(details) ==
  [name |-> "ProjectValidationError", labels |-> {}, code |-> 0,
   details |-> details]
ProjectNotFound ==
  [name |-> "Project not found", labels |-> {}, code |-> 0, details |-> <<>>]
\* mongoose's ValidationError, raised by a schema validator
SchemaValidationError(path) ==
  [name |-> "ValidationError", labels |-> {}, code |-> 0, details |-> <<path>>]
\* E11000 of a unique index, raised against a document the transaction sees
DuplicateKeyError(index) ==
  [name |-> "MongoServerError", labels |-> {}, code |-> 11000,
   details |-> <<index>>]
\* code 112, raised against a write the transaction's snapshot does not hold
WriteConflictError ==
  [name |-> "MongoServerError", labels |-> {"TransientTransactionError"},
   code |-> 112, details |-> <<>>]
\* a store error that interrupts an attempt: a fail-over or a time-out labelled
\* transient by the driver, or an unlabelled failure of the connection
TransientStoreError ==
  [name |-> "MongoServerError", labels |-> {"TransientTransactionError"},
   code |-> 0, details |-> <<>>]
FatalStoreError ==
  [name |-> "MongoNetworkError", labels |-> {}, code |-> 0, details |-> <<>>]
MaxRetriesError ==
  [name |-> "Transaction failed after maximum retries", labels |-> {},
   code |-> 0, details |-> <<>>]

isTransientTransactionError(error) ==
  \/ "TransientTransactionError" \in error.labels
  \/ error.code = 112

MAX_TRANSACTION_RETRIES == 3
TRANSACTION_RETRY_BASE_DELAY_MS == 100

(***************************************************************************)
(* URLs.  A URL is the pair of its host and its path without the leading   *)
(* slash; the empty string is the pair of two empty parts.                 *)
(***************************************************************************)
NoUrl == [host |-> "", path |-> ""]
IsBlankUrl(url) == url.host = "" /\ url.path = ""

\* getPublicUrlForKey: `${R2_PUBLIC_BASE_URL}/${key}`
getPublicUrlForKey(key) == [host |-> "cdn", path |-> key]

\* deriveStorageKey: the URL's path without its leading slash, or its host
deriveStorageKey(url) == IF url.path # "" THEN url.path ELSE url.host

(***************************************************************************)
(* validateAdminPayload: the messages of the violated rules, in the order  *)
(* the code pushes them.                                                   *)
(***************************************************************************)
IsBlank(s) == trim(s) = <<>>

\* /^(19|20|21)\d{2}(-\d{2})?$/
matchesYearPattern(s) ==
  /\ Len(s) \in {4, 7}
  /\ <<s[1], s[2]>> \in {<<"1", "9">>, <<"2", "0">>, <<"2", "1">>}
  /\ s[3] \in Digits /\ s[4] \in Digits
  /\ Len(s) = 7 => (s[5] = "-" /\ s[6] \in Digits /\ s[7] \in Digits)

RECURSIVE indexOf(_, _, _)
indexOf(list, x, i) ==
  IF i > Len(list) THEN 0
  ELSE IF list[i] = x THEN i ELSE indexOf(list, x, i + 1)

When(cond, message) == IF cond THEN <<message>> ELSE <<>>

heroErrors(payload, allowIncompleteMedia) ==
  IF ~allowIncompleteMedia
    THEN When(IsBlankUrl(payload.heroImage), "Hero image URL is required")
         \o (IF IsBlank(payload.heroCaption)
               THEN <<"Hero caption is required">>
               ELSE When(Len(payload.heroCaption) > 140,
                         "Hero caption max length is 140 characters"))
    ELSE When(Len(payload.heroCaption) > 140,
              "Hero caption max length is 140 characters")

metaErrors(payload) ==
  IF Len(payload.meta) < 3
    THEN <<"Meta list requires at least three items">>
    ELSE LET labels == [i \in DOMAIN payload.meta |->
                          toLowerCase(trim(payload.meta[i].label))]
             hasDuplicate ==
               \E idx \in DOMAIN labels :
                 labels[idx] # <<>> /\ indexOf(labels, labels[idx], 1) # idx
         IN  When(hasDuplicate, "Meta labels must be unique")
             \o When(\E i \in DOMAIN payload.meta :
                        IsBlank(payload.meta[i].label)
                        \/ IsBlank(payload.meta[i].value),
                     "Meta items require label and value")

galleryErrors(payload, allowIncompleteMedia) ==
  IF ~allowIncompleteMedia
    THEN IF Len(payload.gallery) < 3
           THEN <<"Gallery requires at least three images">>
           ELSE IF Len(payload.gallery) > 15
             THEN <<"Gallery can include up to fifteen images">>
             ELSE When(\E i \in DOMAIN payload.gallery :
                          IsBlankUrl(payload.gallery[i].src)
                          \/ IsBlank(payload.gallery[i].caption),
                       "Gallery entries require image URL and caption")
    ELSE When(Len(payload.gallery) > 15,
              "Gallery can include up to fifteen images")

validateAdminPayload(payload, allowIncompleteMedia) ==
  (IF IsBlank(payload.title) THEN <<"Title is required">>
   ELSE When(Len(payload.title) > 120, "Title max length is 120 characters"))
  \o (IF IsBlank(payload.slug) THEN <<"Slug is required">>
      ELSE IF ~matchesSlugPattern(payload.slug)
        THEN <<"Slug must use lowercase letters, numbers, and hyphen">>
        ELSE When(Len(payload.slug) > 60, "Slug max length is 60 characters"))
  \o When(IsBlank(payload.category), "Category is required")
  \o When(IsBlank(payload.location), "Location is required")
  \o (IF IsBlank(payload.year) THEN <<"Year is required">>
      ELSE When(~matchesYearPattern(trim(payload.year)),
                "Year must match YYYY or YYYY-YY"))
  \o heroErrors(payload, allowIncompleteMedia)
  \o (IF IsBlank(payload.excerpt) THEN <<"Excerpt is required">>
      ELSE When(Len(payload.excerpt) > 360,
                "Excerpt max length is 360 characters"))
  \o (IF Len(payload.description) < 2
        THEN <<"Provide at least two description paragraphs">>
        ELSE When(\E i \in DOMAIN payload.description :
                     Len(trim(payload.description[i])) < 80,
                  "Each description paragraph must be at least 80 characters"))
  \o metaErrors(payload)
  \o When(Len(payload.services) = 0, "Include at least one service")
  \o When(Len(payload.collaborators) = 0, "Include at least one collaborator")
  \o galleryErrors(payload, allowIncompleteMedia)

(***************************************************************************)
(* The store.  Every collection is a set of documents; a transaction works *)
(* on the snapshot it read and the store takes its writes at commit.       *)
(* "undefined" and "null" ids are 0, ObjectIds are positive.               *)
(***************************************************************************)
EmptyDb ==
  [projects |-> {}, publishedProjects |-> {}, projectVersions |-> {},
   projectHistory |-> {}, mediaAssets |-> {}, categories |-> {},
   services |-> {}, collaborators |-> {}]

\* findOne over the matching documents: the first in natural order
First(rows) == CHOOSE r \in rows : \A q \in rows : r._id <= q._id

\* what an operation inside the closure leaves: the session's view of the
\* store, the error it threw, and its value
Step(d, e, v) == [db |-> d, err |-> e, val |-> v]

NullAsset == [_id |-> 0, storageKey |-> "", publicUrl |-> NoUrl, kind |-> "none"]

\* ensureMediaAsset.  dFind is the state its findOne reads and dAcc the state
\* its create writes to: the same state when the call is awaited alone,
\* different ones when Promise.all started several calls together (every
\* findOne is sent before the first create).
ensureMediaAsset(dFind, dAcc, url, kind, newId) ==
  IF IsBlankUrl(url) THEN Step(dAcc, NoError, NullAsset)
  ELSE LET existing == {a \in dFind.mediaAssets : a.publicUrl = url}
           created == [_id |-> newId, storageKey |-> deriveStorageKey(url),
                       publicUrl |-> url, kind |-> kind]
       IN  IF existing # {} THEN Step(dAcc, NoError, First(existing))
           ELSE IF \E a \in dAcc.mediaAssets : a.storageKey = created.storageKey
             THEN Step(dAcc, DuplicateKeyError("uq_media_storageKey"), NullAsset)
             ELSE Step([dAcc EXCEPT !.mediaAssets = @ \cup {created}],
                       NoError, created)

\* a binding that looked at the URL alone
findOrCreateByUrlAlone(dFind, dAcc, assetId, fallbackUrl, kind, newId) ==
  ensureMediaAsset(dFind, dAcc, fallbackUrl, kind, newId)

findOrCreateMediaAsset(dFind, dAcc, assetId, fallbackUrl, kind, newId) ==
  LET existing == {a \in dFind.mediaAssets : a._id = assetId}
  IN  IF assetId # 0 /\ existing # {}
        THEN Step(dAcc, NoError, First(existing))
        ELSE ensureMediaAsset(dFind, dAcc, fallbackUrl, kind, newId)

\* /^[a-z0-9-]{lo,hi}$/
matchesSlugOfLength(s, lo, hi) ==
  matchesSlugPattern(s) /\ Len(s) >= lo /\ Len(s) <= hi

ensureCategory(d, label, newId) ==
  LET slug == slugifyTo(label, 60)
      existing == {c \in d.categories : c.slug = slug}
      created == [_id |-> newId, slug |-> slug, name |-> trim(label)]
  IN  IF existing # {} THEN Step(d, NoError, First(existing)._id)
      ELSE IF created.name = <<>> \/ Len(created.name) > 80
              \/ ~matchesSlugOfLength(slug, 3, 60)
        THEN Step(d, SchemaValidationError("category"), 0)
        ELSE Step([d EXCEPT !.categories = @ \cup {created}], NoError, newId)

ensureService(dFind, dAcc, label, newId) ==
  LET cleaned == trim(label)
      slug == slugifyTo(cleaned, 80)
      existing == {x \in dFind.services : x.slug = slug}
      created == [_id |-> newId, slug |-> slug, label |-> cleaned]
  IN  IF existing # {} THEN Step(dAcc, NoError, First(existing)._id)
      ELSE IF cleaned = <<>> \/ Len(cleaned) > 120
              \/ ~matchesSlugOfLength(slug, 3, 80)
        THEN Step(dAcc, SchemaValidationError("service"), 0)
        ELSE IF \E x \in dAcc.services : x.slug = slug
          THEN Step(dAcc, DuplicateKeyError("uq_services_slug"), 0)
          ELSE Step([dAcc EXCEPT !.services = @ \cup {created}], NoError, newId)

\* label.split(DASH).map(trim): "em_dash" stands for the character U+2014
RECURSIVE splitOnDash(_, _)
splitOnDash(s, part) ==
  IF s = <<>> THEN <<part>>
  ELSE IF Head(s) = "em_dash" THEN <<part>> \o splitOnDash(Tail(s), <<>>)
  ELSE splitOnDash(Tail(s), Append(part, Head(s)))

parseCollaboratorLabel(label) ==
  LET parts == splitOnDash(label, <<>>)
  IN  [displayName |-> trim(parts[1]),
       organization |-> IF Len(parts) >= 2 THEN trim(parts[2]) ELSE <<>>]

ensureCollaborator(dFind, dAcc, label, newId) ==
  LET p == parseCollaboratorLabel(label)
      existing == {x \in dFind.collaborators :
                     x.displayName = p.displayName
                     /\ x.organization = p.organization}
      created == [_id |-> newId, displayName |-> p.displayName,
                  organization |-> p.organization]
  IN  IF existing # {} THEN Step(dAcc, NoError, First(existing)._id)
      ELSE IF p.displayName = <<>> \/ Len(p.displayName) > 160
              \/ Len(p.organization) > 160
        THEN Step(dAcc, SchemaValidationError("collaborator"), 0)
        ELSE IF \E x \in dAcc.collaborators :
                  toLowerCase(x.displayName) = toLowerCase(p.displayName)
                  /\ toLowerCase(x.organization) = toLowerCase(p.organization)
          THEN Step(dAcc, DuplicateKeyError("idx_collaborators_name_org"), 0)
          ELSE Step([dAcc EXCEPT !.collaborators = @ \cup {created}],
                    NoError, newId)

(***************************************************************************)
(* buildContentFromPayload.  ids holds the next unused ObjectId of every   *)
(* collection the closure may insert into.                                 *)
(***************************************************************************)
\* Promise.all over the gallery entries: every lookup reads dFind, the state
\* before the batch; the creates follow one another.
RECURSIVE bindGallery(_, _, _, _, _, _)
bindGallery(items, i, dFind, dAcc, newId, acc) ==
  IF i > Len(items) THEN Step(dAcc, NoError, acc)
  ELSE LET r == findOrCreateMediaAsset(dFind, dAcc, items[i].assetId,
                                       items[i].src, "gallery", newId)
       IN  IF r.err # NoError THEN Step(dAcc, r.err, acc)
           ELSE bindGallery(items, i + 1, dFind, r.db,
                            IF r.db # dAcc THEN newId + 1 ELSE newId,
                            Append(acc, r.val))

RECURSIVE resolveServices(_, _, _, _, _, _)
resolveServices(labels, i, dFind, dAcc, newId, acc) ==
  IF i > Len(labels) THEN Step(dAcc, NoError, acc)
  ELSE LET r == ensureService(dFind, dAcc, labels[i], newId)
       IN  IF r.err # NoError THEN Step(dAcc, r.err, acc)
           ELSE resolveServices(labels, i + 1, dFind, r.db,
                  IF r.db # dAcc THEN newId + 1 ELSE newId,
                  Append(acc, [serviceId |-> r.val, label |-> labels[i],
                               order |-> i - 1]))

RECURSIVE resolveCollaborators(_, _, _, _, _, _)
resolveCollaborators(labels, i, dFind, dAcc, newId, acc) ==
  IF i > Len(labels) THEN Step(dAcc, NoError, acc)
  ELSE LET r == ensureCollaborator(dFind, dAcc, labels[i], newId)
       IN  IF r.err # NoError THEN Step(dAcc, r.err, acc)
           ELSE resolveCollaborators(labels, i + 1, dFind, r.db,
                  IF r.db # dAcc THEN newId + 1 ELSE newId,
                  Append(acc, [collaboratorId |-> r.val, label |-> labels[i],
                               order |-> i - 1]))

NoContent == [categoryId |-> 0]

\* the item stored for a bound asset: asset?._id and asset?.storageKey ?? src
\* (the asset is null only when the submitted URL is blank)
galleryItem(asset, caption, index) ==
  [assetId |-> asset._id, src |-> asset.storageKey, caption |-> caption,
   order |-> index]

\* buildContentFromPayload after each of its awaited calls, latest first
contentWithCollaborators(payload, cat, hero, gal, svc, col) ==
  IF col.err # NoError THEN Step(col.db, col.err, NoContent)
  ELSE Step(col.db, NoError,
         [categoryId |-> cat.val,
          hero |-> [assetId |-> hero.val._id, src |-> hero.val.storageKey,
                    caption |-> payload.heroCaption],
          descriptionBlocks |->
            [i \in DOMAIN payload.description |->
               [body |-> trim(payload.description[i]), order |-> i - 1]],
          meta |->
            [i \in DOMAIN payload.meta |->
               [label |-> trim(payload.meta[i].label),
                value |-> trim(payload.meta[i].value), order |-> i - 1]],
          services |-> svc.val,
          collaborators |-> col.val,
          gallery |->
            [i \in DOMAIN payload.gallery |->
               galleryItem(gal.val[i], payload.gallery[i].caption, i - 1)]])

contentWithServices(payload, ids, cat, hero, gal, svc) ==
  IF svc.err # NoError THEN Step(svc.db, svc.err, NoContent)
  ELSE contentWithCollaborators(
         payload, cat, hero, gal, svc,
         resolveCollaborators(payload.collaborators, 1, svc.db, svc.db,
                              ids.collaborator, <<>>))

contentWithGallery(payload, ids, cat, hero, gal) ==
  IF gal.err # NoError THEN Step(gal.db, gal.err, NoContent)
  ELSE contentWithServices(
         payload, ids, cat, hero, gal,
         resolveServices(payload.services, 1, gal.db, gal.db, ids.service, <<>>))

contentWithHero(payload, ids, cat, hero) ==
  IF hero.err # NoError THEN Step(hero.db, hero.err, NoContent)
  ELSE contentWithGallery(
         payload, ids, cat, hero,
         bindGallery(payload.gallery, 1, hero.db, hero.db,
                     IF hero.db # cat.db THEN ids.asset + 1 ELSE ids.asset,
                     <<>>))

contentWithCategory(payload, ids, cat) ==
  IF cat.err # NoError THEN Step(cat.db, cat.err, NoContent)
  ELSE contentWithHero(
         payload, ids, cat,
         findOrCreateMediaAsset(cat.db, cat.db, payload.heroAssetId,
                                payload.heroImage, "hero", ids.asset))

buildContentFromPayload(d, payload, ids) ==
  contentWithCategory(payload, ids,
                      ensureCategory(d, payload.category, ids.category))


(***************************************************************************)
(* The project schema's validators (maxlength, match, required and the     *)
(* array validators), run by create, by save and by runValidators.         *)
(***************************************************************************)
projectSchemaError(doc) ==
  IF Len(doc.slug) > SlugMaxLength \/ ~matchesSlugPattern(doc.slug)
    THEN SchemaValidationError("slug")
  ELSE IF doc.title = <<>> \/ Len(doc.title) > 120
    THEN SchemaValidationError("title")
  ELSE IF doc.categoryLabel = <<>> \/ Len(doc.categoryLabel) > 80
    THEN SchemaValidationError("categoryLabel")
  ELSE IF doc.location = <<>> \/ Len(doc.location) > 160
    THEN SchemaValidationError("location")
  ELSE IF ~matchesYearPattern(doc.yearDisplay)
    THEN SchemaValidationError("yearDisplay")
  ELSE IF Len(doc.hero.caption) > 140
    THEN SchemaValidationError("hero.caption")
  ELSE IF doc.excerpt = <<>> \/ Len(doc.excerpt) > 360
    THEN SchemaValidationError("excerpt")
  ELSE IF Len(doc.descriptionBlocks) < 2
          \/ \E i \in DOMAIN doc.descriptionBlocks :
               Len(doc.descriptionBlocks[i].body) < 80
    THEN SchemaValidationError("descriptionBlocks")
  ELSE IF Len(doc.meta) < 3
          \/ \E i \in DOMAIN doc.meta :
               \/ doc.meta[i].label = <<>> \/ Len(doc.meta[i].label) > 60
               \/ doc.meta[i].value = <<>> \/ Len(doc.meta[i].value) > 160
    THEN SchemaValidationError("meta")
  ELSE IF Len(doc.services) < 1
          \/ \E i \in DOMAIN doc.services :
               doc.services[i].label = <<>> \/ Len(doc.services[i].label) > 120
    THEN SchemaValidationError("services")
  ELSE IF Len(doc.collaborators) < 1
          \/ \E i \in DOMAIN doc.collaborators :
               \/ doc.collaborators[i].label = <<>>
               \/ Len(doc.collaborators[i].label) > 200
    THEN SchemaValidationError("collaborators")
  ELSE IF Len(doc.gallery) > 15
          \/ \E i \in DOMAIN doc.gallery : Len(doc.gallery[i].caption) > 240
    THEN SchemaValidationError("gallery")
  ELSE NoError

(***************************************************************************)
(* Published snapshot, history and version rows.                           *)
(***************************************************************************)
\* Array.prototype.sort by order (stable): insertion into a sorted prefix
RECURSIVE insertByOrder(_, _)
insertByOrder(sorted, item) ==
  IF sorted = <<>> THEN <<item>>
  ELSE IF item.order < Head(sorted).order THEN <<item>> \o sorted
  ELSE <<Head(sorted)>> \o insertByOrder(Tail(sorted), item)

RECURSIVE sortFrom(_, _, _)
sortFrom(items, i, acc) ==
  IF i > Len(items) THEN acc
  ELSE sortFrom(items, i + 1,
                IF acc = <<>> \/ items[i].order >= acc[Len(acc)].order
                  THEN Append(acc, items[i])
                  ELSE insertByOrder(acc, items[i]))

sortByOrder(items) == sortFrom(items, 1, <<>>)

projectToPublishedPayload(project) ==
  [projectId |-> project._id,
   slug |-> project.slug,
   title |-> project.title,
   categoryLabel |-> project.categoryLabel,
   location |-> project.location,
   yearDisplay |-> project.yearDisplay,
   hero |-> project.hero,
   excerpt |-> project.excerpt,
   descriptionBlocks |-> sortByOrder(project.descriptionBlocks),
   meta |-> sortByOrder(project.meta),
   services |-> LET x == sortByOrder(project.services)
                IN  [i \in DOMAIN x |-> [label |-> x[i].label, order |-> x[i].order]],
   collaborators |-> LET x == sortByOrder(project.collaborators)
                     IN  [i \in DOMAIN x |->
                            [label |-> x[i].label, order |-> x[i].order]],
   gallery |-> sortByOrder(project.gallery)]

\* an upsert that only inserted: a snapshot the project already has stays
upsertPublishedProjectOnce(d, project) ==
  IF \E x \in d.publishedProjects : x.projectId = project._id
    THEN Step(d, NoError, 0)
    ELSE Step([d EXCEPT !.publishedProjects =
                 @ \cup {projectToPublishedPayload(project)}],
              NoError, 0)

\* findOneAndUpdate({projectId}, {$set: payload}, {upsert: true}) under the
\* unique index uq_publishedProjects_slug
upsertPublishedProject(d, project) ==
  LET payload == projectToPublishedPayload(project)
      others == {x \in d.publishedProjects : x.projectId # project._id}
  IN  IF \E x \in others : x.slug = payload.slug
        THEN Step(d, DuplicateKeyError("uq_publishedProjects_slug"), 0)
        ELSE Step([d EXCEPT !.publishedProjects = others \cup {payload}],
                  NoError, 0)

\* an entry that left the version out
createHistoryEntryUnversioned(d, projectId, action, fromStatus, toStatus, snapshotVersion) ==
  [d EXCEPT !.projectHistory = @ \cup
     {[projectId |-> projectId, action |-> action, fromStatus |-> fromStatus,
       toStatus |-> toStatus, snapshotVersion |-> 0,
       seq |-> Cardinality({h \in d.projectHistory : h.projectId = projectId}) + 1]}]

\* ProjectHistoryModel.create; seq numbers the project's entries in the order
\* they were written.  An absent status is "none", an absent version 0.
createHistoryEntry(d, projectId, action, fromStatus, toStatus, snapshotVersion) ==
  [d EXCEPT !.projectHistory = @ \cup
     {[projectId |-> projectId, action |-> action, fromStatus |-> fromStatus,
       toStatus |-> toStatus, snapshotVersion |-> snapshotVersion,
       seq |-> Cardinality({h \in d.projectHistory : h.projectId = projectId}) + 1]}]

\* a write that kept one version row per project, replacing the earlier one
recordVersionReplacing(d, project, source, published) ==
  Step([d EXCEPT !.projectVersions =
          {v \in @ : v.projectId # project._id} \cup
            {[projectId |-> project._id, version |-> project.revision,
              status |-> project.status, source |-> source,
              published |-> published]}],
       NoError, 0)

\* ProjectVersionModel.create under uq_projectVersions_project_version
recordVersion(d, project, source, published) ==
  IF \E v \in d.projectVersions :
       v.projectId = project._id /\ v.version = project.revision
    THEN Step(d, DuplicateKeyError("uq_projectVersions_project_version"), 0)
    ELSE Step([d EXCEPT !.projectVersions = @ \cup
                 {[projectId |-> project._id, version |-> project.revision,
                   status |-> project.status, source |-> source,
                   published |-> published]}],
              NoError, 0)

(***************************************************************************)
(* Asset candidates of the garbage collection.                             *)
(***************************************************************************)
RECURSIVE SelectSeq2(_, _)
SelectSeq2(list, keep) ==
  IF list = <<>> THEN <<>>
  ELSE IF Head(list) \in keep THEN <<Head(list)>> \o SelectSeq2(Tail(list), keep)
  ELSE SelectSeq2(Tail(list), keep)

Range(list) == {list[i] : i \in DOMAIN list}

collectProjectAssetIds(project) ==
  [hero |-> project.hero.assetId,
   gallery |-> LET ids == [i \in DOMAIN project.gallery |->
                             project.gallery[i].assetId]
               IN  SelectSeq2(ids, Range(ids) \ {0})]

diffAssetIds(previous, next) ==
  (IF previous.hero # 0 /\ previous.hero # next.hero
     THEN <<previous.hero>> ELSE <<>>)
  \o SelectSeq2(previous.gallery, Range(previous.gallery) \ Range(next.gallery))

(***************************************************************************)
(* The placeholder content of createAdminProject.                          *)
(***************************************************************************)
PLACEHOLDER_PARAGRAPH ==
  <<
    "B", "e", "g", "i", "n", " ", "t", "h", "e", " ", "n", "a", "r", "r",
    "a", "t", "i", "v", "e", " ", "b", "y", " ", "o", "u", "t", "l", "i",
    "n", "i", "n", "g", " ", "t", "h", "e", " ", "p", "r", "o", "j", "e",
    "c", "t", " ", "i", "n", "t", "e", "n", "t", ",", " ", "m", "a", "t",
    "e", "r", "i", "a", "l", " ", "p", "a", "l", "e", "t", "t", "e", ",",
    " ", "a", "n", "d", " ", "e", "x", "p", "e", "r", "i", "e", "n", "t",
    "i", "a", "l", " ", "g", "o", "a", "l", "s", ".", " ", "R", "e", "p",
    "l", "a", "c", "e", " ", "t", "h", "i", "s", " ", "p", "l", "a", "c",
    "e", "h", "o", "l", "d", "e", "r", " ", "w", "i", "t", "h", " ", "a",
    "t", " ", "l", "e", "a", "s", "t", " ", "e", "i", "g", "h", "t", "y",
    " ", "c", "h", "a", "r", "a", "c", "t", "e", "r", "s", " ", "d", "e",
    "s", "c", "r", "i", "b", "i", "n", "g", " ", "t", "h", "e", " ", "s",
    "p", "a", "t", "i", "a", "l", " ", "a", "p", "p", "r", "o", "a", "c",
    "h", ".">>
PLACEHOLDER_EXCERPT ==
  <<
    "U", "s", "e", " ", "t", "h", "i", "s", " ", "s", "p", "a", "c", "e",
    " ", "t", "o", " ", "s", "u", "m", "m", "a", "r", "i", "z", "e", " ",
    "t", "h", "e", " ", "c", "o", "m", "m", "i", "s", "s", "i", "o", "n",
    " ", "i", "n", " ", "a", " ", "s", "i", "n", "g", "l", "e", " ", "s",
    "e", "n", "t", "e", "n", "c", "e", " ", "b", "e", "f", "o", "r", "e",
    " ", "r", "e", "p", "l", "a", "c", "i", "n", "g", " ", "t", "h", "i",
    "s", " ", "p", "l", "a", "c", "e", "h", "o", "l", "d", "e", "r", " ",
    "c", "o", "p", "y", ".">>
\* String(new Date().getFullYear()): four digits, whatever the year
PLACEHOLDER_YEAR == <<"2", "0", "2", "5">>
PLACEHOLDER_META ==
  <<[label |-> <<"L", "o", "c", "a", "t", "i", "o", "n">>, value |-> <<"C", "i", "t", "y", ",", " ", "C", "o", "u", "n", "t", "r", "y">>],
    [label |-> <<"Y", "e", "a", "r">>, value |-> PLACEHOLDER_YEAR],
    [label |-> <<"S", "c", "o", "p", "e">>, value |-> <<"P", "r", "o", "j", "e", "c", "t", " ", "s", "c", "o", "p", "e">>]>>
PLACEHOLDER_SERVICE == <<<<"A", "r", "c", "h", "i", "t", "e", "c", "t", "u", "r", "e">>>>
PLACEHOLDER_COLLABORATOR ==
  <<<<
    "S", "t", "u", "d", "i", "o", " ", "P", "a", "r", "t", "n", "e", "r",
    " ", "em_dash", " ", "T", "B", "D">>>>

placeholderPayload(slug) ==
  [slug |-> slug,
   title |-> <<
    "U", "n", "t", "i", "t", "l", "e", "d", " ", "p", "r", "o", "j", "e",
    "c", "t">>,
   category |-> <<"U", "n", "a", "s", "s", "i", "g", "n", "e", "d">>,
   location |-> <<"C", "i", "t", "y", ",", " ", "C", "o", "u", "n", "t", "r", "y">>,
   year |-> PLACEHOLDER_YEAR,
   heroImage |-> NoUrl,
   heroAssetId |-> 0,
   heroCaption |-> <<
    "P", "e", "n", "d", "i", "n", "g", " ", "h", "e", "r", "o", " ", "c",
    "a", "p", "t", "i", "o", "n">>,
   excerpt |-> PLACEHOLDER_EXCERPT,
   description |-> <<PLACEHOLDER_PARAGRAPH, PLACEHOLDER_PARAGRAPH>>,
   meta |-> PLACEHOLDER_META,
   services |-> PLACEHOLDER_SERVICE,
   collaborators |-> PLACEHOLDER_COLLABORATOR,
   gallery |-> <<>>]

(***************************************************************************)
(* The closures handed to runWithTransaction.  Each reads the snapshot d   *)
(* of its session and returns the store as the session's writes leave it,  *)
(* with the error it threw or with the closure's result.                   *)
(***************************************************************************)
\* `writes` names the collections the closure wrote, in the order of its
\* awaited calls
Thrown(d, e) ==
  [err |-> e, db |-> d, removed |-> <<>>, id |-> 0, writes |-> <<>>]
Returned(d, removed, id) ==
  [err |-> NoError, db |-> d, removed |-> removed, id |-> id, writes |-> <<>>]
Wrote(r, writes) == [r EXCEPT !.writes = writes]

\* ProjectModel.findOne({_id, deletedAt: null})
\* a lookup that forgot the filter deletedAt: null
findAnyProject(d, projectId) == {p \in d.projects : p._id = projectId}

\* ProjectModel.findOne({ _id: projectId, deletedAt: null })
findLiveProject(d, projectId) ==
  {p \in d.projects : p._id = projectId /\ ~p.deleted}

ensureUniqueSlug(desiredSlug, d, ignoreId, now36) ==
  uniqueSlugFrom(desiredSlug,
                 {p.slug : p \in {q \in d.projects :
                                    ignoreId = 0 \/ q._id # ignoreId}},
                 now36)

\* an update that raised the revision by two
updatedProjectSkipping(existing, payload, slug, content, status) ==
  [existing EXCEPT
     !.slug = slug,
     !.title = payload.title,
     !.categoryId = content.categoryId,
     !.categoryLabel = payload.category,
     !.location = payload.location,
     !.yearDisplay = payload.year,
     !.hero = content.hero,
     !.excerpt = payload.excerpt,
     !.descriptionBlocks = content.descriptionBlocks,
     !.meta = content.meta,
     !.services = content.services,
     !.collaborators = content.collaborators,
     !.gallery = content.gallery,
     !.status = status,
     !.publishedAt = IF status = "published" THEN TRUE ELSE @,
     !.revision = @ + 2]

\* the document findOneAndUpdate({$set: update, $inc: {revision: 1}}) leaves
updatedProject(existing, payload, slug, content, status) ==
  [existing EXCEPT
     !.slug = slug,
     !.title = payload.title,
     !.categoryId = content.categoryId,
     !.categoryLabel = payload.category,
     !.location = payload.location,
     !.yearDisplay = payload.year,
     !.hero = content.hero,
     !.excerpt = payload.excerpt,
     !.descriptionBlocks = content.descriptionBlocks,
     !.meta = content.meta,
     !.services = content.services,
     !.collaborators = content.collaborators,
     !.gallery = content.gallery,
     !.status = status,
     !.publishedAt = IF status = "published" THEN TRUE ELSE @,
     !.revision = @ + 1]

\* writes that upserted the snapshot whatever the status
recordPersistedUpserting(d, existing, project, status) ==
  LET h == createHistoryEntry(d, project._id,
             IF status = "published" THEN "published" ELSE "saved",
             existing.status, status, project.revision)
      v == recordVersion(h, project,
             IF status = "published" THEN "publish" ELSE "manual-save",
             status = "published")
  IN  IF v.err # NoError THEN v
      ELSE Step(upsertPublishedProject(v.db, project).db,
                upsertPublishedProject(v.db, project).err,
                <<"projectHistory", "projectVersions", "publishedProjects">>)

\* the writes of persistProjectFromPayload after the project's update: the
\* history entry, the version row and, for a publish, the snapshot; the
\* value names the collections in the order they were written
recordPersisted(d, existing, project, status) ==
  LET h == createHistoryEntry(d, project._id,
             IF status = "published" THEN "published" ELSE "saved",
             existing.status, status, project.revision)
      v == recordVersion(h, project,
             IF status = "published" THEN "publish" ELSE "manual-save",
             status = "published")
      u == upsertPublishedProject(v.db, project)
  IN  IF v.err # NoError THEN v
      ELSE IF status = "published"
        THEN Step(u.db, u.err,
                  <<"projectHistory", "projectVersions", "publishedProjects">>)
        ELSE Step(v.db, NoError, <<"projectHistory", "projectVersions">>)

\* the closure of persistProjectFromPayload after each of its awaited calls,
\* latest first
persistRecorded(existing, project, written) ==
  IF written.err # NoError THEN Thrown(written.db, written.err)
  ELSE Wrote(Returned(written.db,
                      diffAssetIds(collectProjectAssetIds(existing),
                                   collectProjectAssetIds(project)),
                      project._id),
             <<"projects">> \o written.val)

persistUpdated(d, existing, project, status) ==
  IF projectSchemaError(project) # NoError
    THEN Thrown(d, projectSchemaError(project))
    ELSE persistRecorded(
           existing, project,
           recordPersisted([d EXCEPT !.projects = (@ \ {existing}) \cup {project}],
                           existing, project, status))

persistContent(existing, payload, status, slug, content) ==
  IF content.err # NoError THEN Thrown(content.db, content.err)
  ELSE persistUpdated(content.db, existing,
                      updatedProject(existing, payload, slug, content.val, status),
                      status)

persistProjectClosure(d, projectId, payload, status, ids, now36) ==
  LET errors == validateAdminPayload(payload, status # "published")
      found == findLiveProject(d, projectId)
  IN  IF errors # <<>> THEN Thrown(d, ProjectValidationError(errors))
      ELSE IF found = {} THEN Thrown(d, ProjectNotFound)
      ELSE persistContent(First(found), payload, status,
                          ensureUniqueSlug(payload.slug, d, projectId, now36),
                          buildContentFromPayload(d, payload, ids))

\* the closures of createAdminProject and duplicateAdminProject after
\* ProjectModel.create: the history entry and the version row
insertProject(d, project, action, fromStatus) ==
  IF projectSchemaError(project) # NoError
    THEN Thrown(d, projectSchemaError(project))
    ELSE LET v == recordVersion(
                    createHistoryEntry(
                      [d EXCEPT !.projects = @ \cup {project}],
                      project._id, action, fromStatus, "draft", 1),
                    project, "manual-save", FALSE)
         IN  IF v.err # NoError THEN Thrown(v.db, v.err)
             ELSE Wrote(Returned(v.db, <<>>, project._id),
                        <<"projects", "projectHistory", "projectVersions">>)

createContent(ids, payload, content) ==
  IF content.err # NoError THEN Thrown(content.db, content.err)
  ELSE insertProject(
         content.db,
         [_id |-> ids.project, slug |-> payload.slug, title |-> payload.title,
          categoryId |-> content.val.categoryId,
          categoryLabel |-> payload.category, location |-> payload.location,
          yearDisplay |-> payload.year, status |-> "draft",
          hero |-> content.val.hero, excerpt |-> payload.excerpt,
          descriptionBlocks |-> content.val.descriptionBlocks,
          meta |-> content.val.meta, services |-> content.val.services,
          collaborators |-> content.val.collaborators,
          gallery |-> content.val.gallery, revision |-> 1,
          publishedAt |-> FALSE, deleted |-> FALSE],
         "created", "none")

createPlaceholder(d, ids, payload) ==
  createContent(ids, payload, buildContentFromPayload(d, payload, ids))

createProjectClosure(d, ids, now36) ==
  createPlaceholder(
    d, ids,
    placeholderPayload(
      ensureUniqueSlug(<<"u", "n", "t", "i", "t", "l", "e", "d", "-">> \o now36,
                       d, 0, now36)))

\* a renumbering that counted from one
reindexedFromOne(list) ==
  LET x == sortByOrder(list)
  IN  [i \in DOMAIN x |-> [x[i] EXCEPT !.order = i]]

\* sortByOrder(list).map((item, index) => ({...item, order: index}))
reindexed(list) ==
  LET x == sortByOrder(list)
  IN  [i \in DOMAIN x |-> [x[i] EXCEPT !.order = i - 1]]

duplicateSource(d, ids, project, now36) ==
  insertProject(
    d,
    [project EXCEPT
       !._id = ids.project,
       !.slug = ensureUniqueSlug(@ \o <<"-", "c", "o", "p", "y">>, d, 0, now36),
       !.title = @ \o <<" ", "(", "C", "o", "p", "y", ")">>,
       !.status = "draft", !.revision = 1, !.publishedAt = FALSE,
       !.deleted = FALSE,
       !.descriptionBlocks = reindexed(@), !.meta = reindexed(@),
       !.services = reindexed(@), !.collaborators = reindexed(@),
       !.gallery = reindexed(@)],
    "duplicated", "draft")

duplicateProjectClosure(d, projectId, ids, now36) ==
  LET found == findLiveProject(d, projectId)
  IN  IF found = {} THEN Thrown(d, ProjectNotFound)
      ELSE duplicateSource(d, ids, First(found), now36)

\* a delete that left the project's snapshot in place
deleteKeepingSnapshot(d, projectId) ==
  LET found == findLiveProject(d, projectId)
      project == First(found)
      archived == [project EXCEPT !.status = "archived", !.deleted = TRUE]
      h == createHistoryEntry(
             [d EXCEPT !.projects = (@ \ {project}) \cup {archived}],
             project._id, "deleted", project.status, "archived", 0)
      collected == collectProjectAssetIds(archived)
  IN  IF found = {} THEN Thrown(d, ProjectNotFound)
      ELSE Wrote(Returned(h,
                          (IF collected.hero # 0 THEN <<collected.hero>> ELSE <<>>)
                            \o collected.gallery,
                          project._id),
                 <<"projects", "projectHistory">>)

\* the closure of deleteAdminProject; `removed` is what it pushes to assetIds
deleteProjectClosure(d, projectId) ==
  LET found == findLiveProject(d, projectId)
      project == First(found)
      archived == [project EXCEPT !.status = "archived", !.deleted = TRUE]
      h == createHistoryEntry(
             [d EXCEPT !.projects = (@ \ {project}) \cup {archived}],
             project._id, "deleted", project.status, "archived", 0)
      collected == collectProjectAssetIds(archived)
  IN  IF found = {} THEN Thrown(d, ProjectNotFound)
      ELSE IF projectSchemaError(archived) # NoError
        THEN Thrown(d, projectSchemaError(archived))
      ELSE Wrote(Returned(
                   [h EXCEPT !.publishedProjects =
                      {x \in @ : x.projectId # project._id}],
                   (IF collected.hero # 0 THEN <<collected.hero>> ELSE <<>>)
                     \o collected.gallery,
                   project._id),
                 <<"projects", "projectHistory", "publishedProjects">>)

\* the enum of projectHistorySchema.action, checked by
\* ProjectHistoryModel.create
historySchemaError(action) ==
  IF action \in {"created", "duplicated", "saved", "published", "deleted"}
    THEN NoError
    ELSE SchemaValidationError("action")

\* unpublishAdminProject, which the unpublish route imports and the service
\* does not define: loose validation, then status draft, the snapshot
\* deleted and a history entry "unpublished", written by createHistoryEntry
unpublishProjectClosure(d, projectId, payload) ==
  LET errors == validateAdminPayload(payload, TRUE)
      found == findLiveProject(d, projectId)
      project == First(found)
      draft == [project EXCEPT !.status = "draft"]
      h == createHistoryEntry(
             [d EXCEPT !.projects = (@ \ {project}) \cup {draft},
                       !.publishedProjects =
                         {x \in @ : x.projectId # project._id}],
             project._id, "unpublished", project.status, "draft", 0)
  IN  IF errors # <<>> THEN Thrown(d, ProjectValidationError(errors))
      ELSE IF found = {} THEN Thrown(d, ProjectNotFound)
      ELSE IF historySchemaError("unpublished") # NoError
        THEN Thrown([d EXCEPT !.projects = (@ \ {project}) \cup {draft},
                              !.publishedProjects =
                                {x \in @ : x.projectId # project._id}],
                    historySchemaError("unpublished"))
      ELSE Wrote(Returned(h, <<>>, project._id),
                 <<"projects", "publishedProjects", "projectHistory">>)

\* fetchAdminProject: the project, or nothing when it is gone or deleted
fetchAdminProject(d, projectId) == findLiveProject(d, projectId)

\* fetchAdminProjects: the projects that are not deleted
fetchAdminProjects(d) == {p \in d.projects : ~p.deleted}

(***************************************************************************)
(* Transactions of the store (snapshot isolation): an attempt reads the    *)
(* snapshot taken when its transaction started; its writes are taken at    *)
(* commit unless a document it wrote, or a unique key it inserted, was     *)
(* written by someone else since the snapshot, which the store reports as  *)
(* WriteConflict (code 112, labelled TransientTransactionError).           *)
(***************************************************************************)
Collections == DOMAIN EmptyDb

\* a store without the unique indexes of the lookup collections
UniqueKeyOfContentOnly(c, doc) ==
  CASE c = "projects" -> doc.slug
    [] c = "publishedProjects" -> doc.slug
    [] c = "projectVersions" -> <<doc.projectId, doc.version>>
    [] c = "mediaAssets" -> doc.storageKey
    [] OTHER -> doc

UniqueKey(c, doc) ==
  CASE c = "projects" -> doc.slug
    [] c = "publishedProjects" -> doc.slug
    [] c = "projectVersions" -> <<doc.projectId, doc.version>>
    [] c = "mediaAssets" -> doc.storageKey
    [] c = "categories" -> doc.slug
    [] c = "services" -> doc.slug
    [] c = "collaborators" ->
         <<toLowerCase(doc.displayName), toLowerCase(doc.organization)>>
    [] OTHER -> doc

HasWriteConflict(current, snapshot, after) ==
  \E c \in Collections :
    \/ \E x \in snapshot[c] \ after[c] : x \notin current[c]
    \/ \E x \in after[c] \ snapshot[c] :
         \E y \in current[c] \ snapshot[c] : UniqueKey(c, y) = UniqueKey(c, x)

\* session.commitTransaction(): the store after the transaction's writes
Committed(current, snapshot, after) ==
  [c \in Collections |->
     (current[c] \ (snapshot[c] \ after[c])) \cup (after[c] \ snapshot[c])]

\* an abort that left the session's writes in the store
AbortedKeepingWrites(current, snapshot, after) ==
  Committed(current, snapshot, after)

\* session.abortTransaction(): the store without the transaction's writes
Aborted(current, snapshot, after) == current

\* the transaction stored a project slug that another transaction has
\* stored since the snapshot
SlugTaken(current, snapshot, after) ==
  \E x \in after.projects \ snapshot.projects :
    \E y \in current.projects \ snapshot.projects :
      y.slug = x.slug /\ y._id # x._id

(***************************************************************************)
(* State.                                                                  *)
(***************************************************************************)
VARIABLES
  db,        \* the committed documents of the primary store
  blobs,     \* the keys of the objects in the blob store
  assetSeq,  \* the number of MediaAsset ObjectIds handed out
  pc,        \* where each request worker stands
  call,      \* the operation a worker is serving and its input
  attempt,   \* runWithTransaction's loop counter
  snap,      \* the snapshot of the worker's open transaction
  log,       \* what runWithTransaction did during the call
  outcome,   \* the error the call threw, or NoError
  gc,        \* deleteMediaAssetsByIds: candidates, assets found, deletable
  pre,       \* the store when the call started
  slugIn,    \* ensureUniqueSlug on its own: its input ...
  slugOut,   \* ... and the slug it returned
  formIn,    \* validateAdminPayload on its own: its input ...
  formOut    \* ... and the error it threw, or NoError

vars == <<db, blobs, assetSeq, pc, call, attempt, snap, log, outcome, gc, pre,
          slugIn, slugOut, formIn, formOut>>

Workers == {"w1", "w2"}

MaxProjects == 2
MaxRevision == 3

NoCall == [op |-> "none", projectId |-> 0, payload |-> <<>>, status |-> "none",
           now36 |-> <<>>]
\* slugRaces counts the attempts refused because another transaction had
\* taken the slug the attempt stored; writes holds the collections the
\* committed attempt wrote, in the order of its calls, and revision the
\* revision its project had in the session at the commit
NoLog == [runs |-> 0, delays |-> <<>>, commits |-> 0, errors |-> <<>>,
          slugRaces |-> 0, writes |-> <<>>, revision |-> 0]
NoGc == [candidates |-> <<>>, assets |-> {}, deletable |-> {}]
NoSlugIn == [asked |-> FALSE, desired |-> <<>>, slugs |-> {}, now36 |-> <<>>]
NoFormIn == [asked |-> FALSE, payload |-> <<>>, allowIncompleteMedia |-> FALSE]

Init ==
  /\ db = EmptyDb
  /\ blobs = {"k1", "k2", "k3"}
  /\ assetSeq = 0
  /\ pc = [w \in Workers |-> "idle"]
  /\ call = [w \in Workers |-> NoCall]
  /\ attempt = [w \in Workers |-> 0]
  /\ snap = [w \in Workers |-> EmptyDb]
  /\ log = [w \in Workers |-> NoLog]
  /\ outcome = [w \in Workers |-> NoError]
  /\ gc = [w \in Workers |-> NoGc]
  /\ pre = [w \in Workers |-> EmptyDb]
  /\ slugIn = NoSlugIn
  /\ slugOut = <<>>
  /\ formIn = NoFormIn
  /\ formOut = NoError

(***************************************************************************)
(* runWithTransaction.                                                     *)
(***************************************************************************)
\* a request arrives: the loop's first session starts its transaction
Begin(w, c) ==
  /\ pc[w] = "idle"
  /\ pc' = [pc EXCEPT ![w] = "txn"]
  /\ call' = [call EXCEPT ![w] = c]
  /\ attempt' = [attempt EXCEPT ![w] = 0]
  /\ snap' = [snap EXCEPT ![w] = db]
  /\ log' = [log EXCEPT ![w] = [NoLog EXCEPT !.runs = 1]]
  /\ outcome' = [outcome EXCEPT ![w] = NoError]
  /\ gc' = [gc EXCEPT ![w] = NoGc]
  /\ pre' = [pre EXCEPT ![w] = db]
  /\ UNCHANGED <<db, blobs, assetSeq, slugIn, slugOut,
                 formIn, formOut>>

\* the next unused ObjectId of each collection
FreshIdsOf(d, assets) ==
  [project |-> Cardinality(d.projects) + 1,
   asset |-> assets + 1,
   category |-> Cardinality(d.categories) + 1,
   service |-> Cardinality(d.services) + 1,
   collaborator |-> Cardinality(d.collaborators) + 1]

FreshIds == FreshIdsOf(db, assetSeq)

\* operation(session)
RunClosure(c, d, ids) ==
  CASE c.op = "create" -> createProjectClosure(d, ids, c.now36)
    [] c.op = "duplicate" -> duplicateProjectClosure(d, c.projectId, ids, c.now36)
    [] c.op = "delete" -> deleteProjectClosure(d, c.projectId)
    [] c.op = "unpublish" -> unpublishProjectClosure(d, c.projectId, c.payload)
    [] OTHER -> persistProjectClosure(d, c.projectId, c.payload, c.status,
                                      ids, c.now36)

\* a loop that retried after its last attempt as well
shouldRetryAlways(n, error) ==
  n < MAX_TRANSACTION_RETRIES /\ isTransientTransactionError(error)

\* a loop that retried whatever the error
shouldRetryAnyError(n, error) == n < MAX_TRANSACTION_RETRIES - 1

\* attempt < retries - 1 && isTransientTransactionError(error)
shouldRetry(n, error) ==
  n < MAX_TRANSACTION_RETRIES - 1 /\ isTransientTransactionError(error)

\* TRANSACTION_RETRY_BASE_DELAY_MS * 2 ** attempt
retryDelay(n) == TRANSACTION_RETRY_BASE_DELAY_MS * 2 ^ n

\* the catch block: abortTransaction, then retry or rethrow
Abort(w, error, written) ==
  /\ db' = Aborted(db, snap[w], written)
  /\ log' = [log EXCEPT
               ![w].errors = Append(@, error),
               ![w].slugRaces =
                 IF error = WriteConflictError /\ SlugTaken(db, snap[w], written)
                   THEN @ + 1 ELSE @]
  /\ IF shouldRetry(attempt[w], error)
       THEN /\ pc' = [pc EXCEPT ![w] = "backoff"]
            /\ outcome' = outcome
       ELSE /\ pc' = [pc EXCEPT ![w] = "failed"]
            /\ outcome' = [outcome EXCEPT ![w] = error]
  /\ UNCHANGED <<blobs, assetSeq, call, attempt, snap, pre, slugIn, slugOut,
                 formIn, formOut>>

\* what the caller does with the closure's result after the commit
AfterCommit(w, r) ==
  LET candidates == IF call[w].op = "delete"
                      THEN gc[w].candidates \o r.removed ELSE r.removed
  IN  /\ gc' = [gc EXCEPT ![w].candidates = candidates]
      /\ pc' = [pc EXCEPT ![w] = IF candidates # <<>> THEN "gcFind" ELSE "done"]

\* the revision of the project the closure wrote, in the session
writtenRevision(r) ==
  LET rows == {p \in r.db.projects : p._id = r.id}
  IN  IF rows = {} THEN 0 ELSE First(rows).revision

\* the closure has run to its end with result r: it has thrown, or the
\* commit is refused, or the transaction commits
Settle(w, r) ==
  IF r.err # NoError
    THEN Abort(w, r.err, r.db) /\ gc' = gc
    ELSE IF HasWriteConflict(db, snap[w], r.db)
      THEN Abort(w, WriteConflictError, r.db) /\ gc' = gc
      ELSE /\ db' = Committed(db, snap[w], r.db)
           /\ assetSeq' = assetSeq
                + Cardinality(r.db.mediaAssets \ snap[w].mediaAssets)
           /\ log' = [log EXCEPT ![w].commits = @ + 1, ![w].writes = r.writes,
                                 ![w].revision = writtenRevision(r)]
           /\ AfterCommit(w, r)
           /\ UNCHANGED <<blobs, call, attempt, snap, outcome, pre,
                          slugIn, slugOut,
                 formIn, formOut>>

FinishAttempt(w) ==
  /\ pc[w] = "txn"
  /\ Settle(w, RunClosure(call[w], snap[w], FreshIds))

\* the store interrupts the attempt, at its first call or at the commit.
\* At the commit the closure has run with result r: its writes are in the
\* session, and deleteAdminProject's closure has pushed to assetIds, which
\* lives outside the closure.
Interrupt(w, error, atCommit, r) ==
  /\ atCommit => r.err = NoError
  /\ gc' = IF atCommit /\ call[w].op = "delete"
              THEN [gc EXCEPT ![w].candidates = @ \o r.removed]
              ELSE gc
  /\ Abort(w, error, IF atCommit THEN r.db ELSE snap[w])

StoreFault(w, error, atCommit) ==
  /\ pc[w] = "txn"
  /\ Interrupt(w, error, atCommit, RunClosure(call[w], snap[w], FreshIds))

\* await wait(delay); continue: the next session starts its transaction
Backoff(w) ==
  /\ pc[w] = "backoff"
  /\ log' = [log EXCEPT ![w].delays = Append(@, retryDelay(attempt[w])),
                        ![w].runs = IF attempt[w] + 1 < MAX_TRANSACTION_RETRIES
                                      THEN @ + 1 ELSE @]
  /\ attempt' = [attempt EXCEPT ![w] = @ + 1]
  /\ IF attempt[w] + 1 < MAX_TRANSACTION_RETRIES
       THEN /\ pc' = [pc EXCEPT ![w] = "txn"]
            /\ snap' = [snap EXCEPT ![w] = db]
            /\ outcome' = outcome
       ELSE /\ pc' = [pc EXCEPT ![w] = "failed"]
            /\ snap' = snap
            /\ outcome' = [outcome EXCEPT ![w] = MaxRetriesError]
  /\ UNCHANGED <<db, blobs, assetSeq, call, gc, pre, slugIn, slugOut,
                 formIn, formOut>>

\* the response is sent
Return(w) ==
  /\ pc[w] \in {"done", "failed"}
  /\ pc' = [pc EXCEPT ![w] = "idle"]
  /\ call' = [call EXCEPT ![w] = NoCall]
  /\ attempt' = [attempt EXCEPT ![w] = 0]
  /\ snap' = [snap EXCEPT ![w] = EmptyDb]
  /\ log' = [log EXCEPT ![w] = NoLog]
  /\ outcome' = [outcome EXCEPT ![w] = NoError]
  /\ gc' = [gc EXCEPT ![w] = NoGc]
  /\ pre' = [pre EXCEPT ![w] = EmptyDb]
  /\ UNCHANGED <<db, blobs, assetSeq, slugIn, slugOut,
                 formIn, formOut>>

(***************************************************************************)
(* deleteMediaAssetsByIds: the pass run after the commit, outside any      *)
(* transaction, one step per awaited call.                                 *)
(***************************************************************************)
\* a check that looked at the hero images alone
stillInUseAsHero(d, assetId) == \E p \in d.projects : p.hero.assetId = assetId

\* ProjectModel.exists({$or: [{"hero.assetId": id}, {"gallery.assetId": id}]})
stillInUse(d, assetId) ==
  \E p \in d.projects :
    \/ p.hero.assetId = assetId
    \/ \E i \in DOMAIN p.gallery : p.gallery[i].assetId = assetId

\* the loop over the assets found
deletableAssets(d, assets) ==
  {a \in assets : a.storageKey # "" /\ ~stillInUse(d, a._id)}

\* MediaAssetModel.find({_id: {$in: objectIds}})
GcFind(w) ==
  /\ pc[w] = "gcFind"
  /\ LET assets == {a \in db.mediaAssets : a._id \in Range(gc[w].candidates)}
     IN  /\ gc' = [gc EXCEPT ![w].assets = assets]
         /\ pc' = [pc EXCEPT ![w] = IF assets = {} THEN "done" ELSE "gcCheck"]
  /\ UNCHANGED <<db, blobs, assetSeq, call, attempt, snap, log, outcome, pre,
                 slugIn, slugOut,
                 formIn, formOut>>

GcCheck(w) ==
  /\ pc[w] = "gcCheck"
  /\ LET deletable == deletableAssets(db, gc[w].assets)
     IN  /\ gc' = [gc EXCEPT ![w].deletable = deletable]
         /\ pc' = [pc EXCEPT ![w] = IF deletable = {} THEN "done" ELSE "gcRows"]
  /\ UNCHANGED <<db, blobs, assetSeq, call, attempt, snap, log, outcome, pre,
                 slugIn, slugOut,
                 formIn, formOut>>

\* MediaAssetModel.deleteMany({_id: {$in: deletable ids}})
GcDeleteRows(w) ==
  /\ pc[w] = "gcRows"
  /\ db' = [db EXCEPT !.mediaAssets =
              {a \in @ : a._id \notin {x._id : x \in gc[w].deletable}}]
  /\ pc' = [pc EXCEPT ![w] = "gcBlobs"]
  /\ UNCHANGED <<blobs, assetSeq, call, attempt, snap, log, outcome, gc, pre,
                 slugIn, slugOut,
                 formIn, formOut>>

\* deleteR2Objects(deletable keys)
GcDeleteBlobs(w) ==
  /\ pc[w] = "gcBlobs"
  /\ blobs' = blobs \ {x.storageKey : x \in gc[w].deletable}
  /\ pc' = [pc EXCEPT ![w] = "done"]
  /\ UNCHANGED <<db, assetSeq, call, attempt, snap, log, outcome, gc, pre,
                 slugIn, slugOut,
                 formIn, formOut>>

\* a rejection that reached the caller
GcFailThrowing(w) ==
  /\ pc[w] \in {"gcFind", "gcCheck", "gcRows", "gcBlobs"}
  /\ pc' = [pc EXCEPT ![w] = "failed"]
  /\ outcome' = [outcome EXCEPT ![w] = FatalStoreError]
  /\ UNCHANGED <<db, blobs, assetSeq, call, attempt, snap, log, gc,
                 pre, slugIn, slugOut,
                 formIn, formOut>>

\* an awaited call of the pass rejects: .catch logs it and the call returns
GcFail(w) ==
  /\ pc[w] \in {"gcFind", "gcCheck", "gcRows", "gcBlobs"}
  /\ pc' = [pc EXCEPT ![w] = "done"]
  /\ UNCHANGED <<db, blobs, assetSeq, call, attempt, snap, log, outcome, gc,
                 pre, slugIn, slugOut,
                 formIn, formOut>>

(***************************************************************************)
(* The requests of the admin API and the form payloads they carry.         *)
(***************************************************************************)
\* the storage keys of the objects the editors have uploaded
Keys == <<"k1", "k2", "k3">>

\* the id the editor's form holds for a URL: that of the asset bound to it
knownAssetId(d, url) ==
  LET rows == {a \in d.mediaAssets : a.publicUrl = url}
  IN  IF rows = {} THEN 0 ELSE First(rows)._id

formPayload(slug, title, hero, gallery) ==
  [slug |-> slug,
   title |-> title,
   category |-> <<"H", "o", "u", "s", "i", "n", "g">>,
   location |-> <<"O", "s", "l", "o">>,
   year |-> <<"2", "0", "2", "4">>,
   heroImage |-> hero.src,
   heroAssetId |-> hero.assetId,
   heroCaption |-> hero.caption,
   excerpt |-> <<"A", " ", "h", "o", "u", "s", "e", ".">>,
   description |-> <<Rep("d", 80), Rep("e", 81)>>,
   meta |-> PLACEHOLDER_META,
   services |-> PLACEHOLDER_SERVICE,
   collaborators |-> PLACEHOLDER_COLLABORATOR,
   gallery |-> gallery]

NoHero == [src |-> NoUrl, assetId |-> 0, caption |-> <<>>]

\* a hero image and three gallery images, submitted as URLs, or as URLs
\* together with the ids of the assets the editor's form knows
formHero(d, byId) ==
  LET url == getPublicUrlForKey(Keys[1])
  IN  [src |-> url, assetId |-> IF byId THEN knownAssetId(d, url) ELSE 0,
       caption |-> <<"H", "e", "r", "o">>]

formGallery(d, byId) ==
  [i \in 1..3 |->
     LET url == getPublicUrlForKey(Keys[i])
     IN  [assetId |-> IF byId THEN knownAssetId(d, url) ELSE 0, src |-> url,
          caption |-> <<"V", "i", "e", "w">>]]

FormTitle == <<"C", "a", "s", "a">>

\* a slug of the greatest length the form accepts
LongSlug == Rep("a", SlugMaxLength)

SlugChoices == {<<"a">>, LongSlug}

\* the payloads an editor submits: without media, with media, and one that
\* breaks an unconditional rule (blank title)
Payloads(d) ==
  {formPayload(slug, FormTitle, NoHero, <<>>) : slug \in SlugChoices}
  \cup {formPayload(<<"a">>, FormTitle, formHero(d, byId), formGallery(d, byId)) :
          byId \in BOOLEAN}
  \cup {formPayload(<<"a">>, <<" ">>, NoHero, <<>>)}

\* Date.now().toString(36)
Timestamps == {<<"t", "1">>, <<"t", "2">>}

\* ensureUniqueSlug evaluates Date.now() only when the base is empty
TimestampsFor(desiredSlug) ==
  IF slugify(desiredSlug) = <<>> THEN Timestamps ELSE {<<>>}

ProjectIds(d) == {p._id : p \in d.projects}
revisionOf(d, projectId) ==
  LET rows == {p \in d.projects : p._id = projectId}
  IN  IF rows = {} THEN 0 ELSE First(rows).revision

createDraft(w, now36) ==
  /\ Cardinality(db.projects) < MaxProjects
  /\ Begin(w, [NoCall EXCEPT !.op = "create", !.now36 = now36])

saveDraft(w, projectId, payload, now36) ==
  /\ revisionOf(db, projectId) < MaxRevision
  /\ Begin(w, [op |-> "save", projectId |-> projectId, payload |-> payload,
               status |-> "draft", now36 |-> now36])

publish(w, projectId, payload, now36) ==
  /\ revisionOf(db, projectId) < MaxRevision
  /\ Begin(w, [op |-> "publish", projectId |-> projectId, payload |-> payload,
               status |-> "published", now36 |-> now36])

unpublish(w, projectId, payload) ==
  Begin(w, [op |-> "unpublish", projectId |-> projectId, payload |-> payload,
            status |-> "draft", now36 |-> <<>>])

deleteDraft(w, projectId) ==
  Begin(w, [NoCall EXCEPT !.op = "delete", !.projectId = projectId])

duplicate(w, projectId, now36) ==
  /\ Cardinality(db.projects) < MaxProjects
  /\ Begin(w, [NoCall EXCEPT !.op = "duplicate", !.projectId = projectId,
                             !.now36 = now36])

(***************************************************************************)
(* Spec: the requests are served one after the other (a request starts     *)
(* when no other is being served) and the store answers every call.        *)
(***************************************************************************)
AllIdle == \A w \in Workers : pc[w] = "idle"

GcSteps(w) ==
  \/ GcFind(w)
  \/ GcCheck(w)
  \/ GcDeleteRows(w)
  \/ GcDeleteBlobs(w)

Requests(w) ==
  \/ \E now36 \in Timestamps : createDraft(w, now36)
  \/ \E id \in ProjectIds(db), payload \in Payloads(db) :
       \E now36 \in TimestampsFor(payload.slug) :
         saveDraft(w, id, payload, now36)
  \/ \E id \in ProjectIds(db), payload \in Payloads(db) :
       \E now36 \in TimestampsFor(payload.slug) :
         publish(w, id, payload, now36)
  \/ \E id \in ProjectIds(db) : deleteDraft(w, id)
  \/ \E id \in ProjectIds(db) : duplicate(w, id, <<>>)

Next ==
  \/ AllIdle /\ Requests("w1")
  \/ FinishAttempt("w1")
  \/ GcSteps("w1")
  \/ Return("w1")

Spec == Init /\ [][Next]_vars

(***************************************************************************)
(* SpecFaults: the requests are served one after the other and the store   *)
(* may interrupt any attempt, with a transient or with a fatal error, and  *)
(* any call of the garbage collection.                                     *)
(***************************************************************************)
FaultPayloads(d) ==
  {formPayload(<<"a">>, FormTitle, NoHero, <<>>),
   formPayload(<<"a">>, FormTitle, formHero(d, FALSE), formGallery(d, FALSE)),
   formPayload(<<"a">>, <<" ">>, NoHero, <<>>)}

FaultsMaxRevision == 3

FaultRequests(w) ==
  \/ createDraft(w, <<"t", "1">>)
  \/ \E id \in ProjectIds(db), payload \in FaultPayloads(db) :
       revisionOf(db, id) < FaultsMaxRevision /\ saveDraft(w, id, payload, <<>>)
  \/ \E id \in ProjectIds(db), payload \in FaultPayloads(db) :
       revisionOf(db, id) < FaultsMaxRevision /\ publish(w, id, payload, <<>>)
  \/ \E id \in ProjectIds(db) : deleteDraft(w, id)
  \/ \E id \in ProjectIds(db) : duplicate(w, id, <<>>)

StoreFaults(w) ==
  \E e \in {TransientStoreError, WriteConflictError, FatalStoreError},
     atCommit \in BOOLEAN :
    StoreFault(w, e, atCommit)

NextFaults ==
  \/ AllIdle /\ FaultRequests("w1")
  \/ FinishAttempt("w1")
  \/ StoreFaults("w1")
  \/ Backoff("w1")
  \/ GcSteps("w1")
  \/ GcFail("w1")
  \/ Return("w1")

SpecFaults == Init /\ [][NextFaults]_vars

(***************************************************************************)
(* SpecRace: two workers serve requests at the same time.  The store holds *)
(* project 1, saved once with a hero and a gallery, and project 2, just    *)
(* created.                                                                *)
(***************************************************************************)
RaceSaved(d) ==
  persistProjectClosure(
    d, 1,
    formPayload(<<"a">>, FormTitle, formHero(d, FALSE), formGallery(d, FALSE)),
    "draft", FreshIdsOf(d, 0), <<>>).db

RaceCreated(d, assets, now36) ==
  createProjectClosure(d, FreshIdsOf(d, assets), now36).db

RaceDb ==
  RaceCreated(RaceSaved(RaceCreated(EmptyDb, 0, <<"t", "1">>)), Len(Keys),
              <<"t", "2">>)

InitRace ==
  /\ db = RaceDb
  /\ blobs = {"k1", "k2", "k3"}
  /\ assetSeq = Len(Keys)
  /\ pc = [w \in Workers |-> "idle"]
  /\ call = [w \in Workers |-> NoCall]
  /\ attempt = [w \in Workers |-> 0]
  /\ snap = [w \in Workers |-> EmptyDb]
  /\ log = [w \in Workers |-> NoLog]
  /\ outcome = [w \in Workers |-> NoError]
  /\ gc = [w \in Workers |-> NoGc]
  /\ pre = [w \in Workers |-> EmptyDb]
  /\ slugIn = NoSlugIn
  /\ slugOut = <<>>
  /\ formIn = NoFormIn
  /\ formOut = NoError

RacePayloads(d) ==
  {formPayload(LongSlug, FormTitle, NoHero, <<>>),
   formPayload(<<"a">>, FormTitle, formHero(d, TRUE), formGallery(d, TRUE))}

RaceMaxRevision == 3

RaceRequests(w) ==
  /\ pc[w] = "idle"
  /\ \/ \E id \in ProjectIds(db), payload \in RacePayloads(db) :
          revisionOf(db, id) < RaceMaxRevision
            /\ saveDraft(w, id, payload, <<>>)
     \/ \E id \in ProjectIds(db), payload \in RacePayloads(db) :
          revisionOf(db, id) < RaceMaxRevision
            /\ publish(w, id, payload, <<>>)

NextRace ==
  \E w \in Workers :
    \/ RaceRequests(w)
    \/ FinishAttempt(w)
    \/ Backoff(w)
    \/ GcSteps(w)
    \/ Return(w)

SpecRace == InitRace /\ [][NextRace]_vars

(***************************************************************************)
(* SpecSlug: ensureUniqueSlug on its own, asked for a desired slug against *)
(* a store whose projects hold the slugs of a given set.                   *)
(***************************************************************************)
DesiredSlugs ==
  {<<>>, <<"-", "-", "-">>, <<"a">>, <<"A", " ", "b">>,
   <<"C", "a", "f", "e_acute">>, Rep("a", SlugMaxLength - 1), LongSlug,
   Rep("a", SlugMaxLength + 1), LongSlug \o <<"-", "c", "o", "p", "y">>}

\* slugs the schema of the projects accepts
TakenSlugs ==
  {<<"a">>, <<"a", "-", "1">>, <<"a", "-", "b">>, <<"c", "a", "f", "e">>,
   Rep("a", SlugMaxLength - 1), LongSlug,
   <<"p", "r", "o", "j", "e", "c", "t", "-", "t", "1">>}

\* ensureUniqueSlug reads the slug of a project, and its id when it is told
\* to ignore one
ProjectsHolding(slugs) ==
  [EmptyDb EXCEPT !.projects = {[_id |-> 0, slug |-> x] : x \in slugs}]

AskSlug(desired, slugs, now36) ==
  /\ ~slugIn.asked
  /\ slugIn' = [asked |-> TRUE, desired |-> desired, slugs |-> slugs,
                now36 |-> now36]
  /\ slugOut' = ensureUniqueSlug(desired, ProjectsHolding(slugs), 0, now36)
  /\ UNCHANGED <<db, blobs, assetSeq, pc, call, attempt, snap, log, outcome,
                 gc, pre, formIn, formOut>>

NextSlug ==
  \E desired \in DesiredSlugs, slugs \in SUBSET TakenSlugs,
     now36 \in Timestamps :
    AskSlug(desired, slugs, now36)

SpecSlug == Init /\ [][NextSlug]_vars

(***************************************************************************)
(* SpecValidate: validateAdminPayload on its own, given a form payload in  *)
(* draft mode or in publish mode.                                          *)
(***************************************************************************)
\* what validateAdminPayload throws
validationError(payload, allowIncompleteMedia) ==
  LET errors == validateAdminPayload(payload, allowIncompleteMedia)
  IN  IF errors # <<>> THEN ProjectValidationError(errors) ELSE NoError

MetaRow(label, value) == [label |-> label, value |-> value]

FormMetas ==
  {PLACEHOLDER_META,
   <<MetaRow(<<"A">>, <<"x">>), MetaRow(<<"B">>, <<"y">>)>>,
   <<MetaRow(<<"A">>, <<"x">>), MetaRow(<<" ">>, <<"y">>)>>,
   <<MetaRow(<<"A">>, <<"x">>), MetaRow(<<"a">>, <<"y">>),
     MetaRow(<<"C">>, <<"z">>)>>,
   <<MetaRow(<<"A">>, <<"x">>), MetaRow(<<"B">>, <<>>),
     MetaRow(<<"C">>, <<"z">>)>>}

FormDescriptions ==
  {<<Rep("d", 80), Rep("e", 81)>>, <<Rep("d", 80)>>, <<Rep("d", 79)>>,
   <<Rep("d", 80), Rep("e", 79)>>}

\* the gallery of the form without the caption of its entry i
uncaptioned(gallery, i) == [gallery EXCEPT ![i].caption = <<>>]

FormGalleries ==
  LET three == formGallery(EmptyDb, FALSE)
  IN  {<<>>, three, SubSeq(three, 1, 2), uncaptioned(SubSeq(three, 1, 2), 2),
       uncaptioned(three, 3)}

\* the heroes of the form: none, complete, without caption, without image,
\* with a caption of 141 letters and with a caption of 141 spaces
FormHeroes ==
  {NoHero, formHero(EmptyDb, FALSE),
   [formHero(EmptyDb, FALSE) EXCEPT !.caption = <<>>],
   [formHero(EmptyDb, FALSE) EXCEPT !.src = NoUrl],
   [formHero(EmptyDb, FALSE) EXCEPT !.caption = Rep("c", 141)],
   [formHero(EmptyDb, FALSE) EXCEPT !.caption = Rep(" ", 141)]}

FormPayloads ==
  {[formPayload(<<"a">>, title, hero, gallery) EXCEPT
      !.meta = meta, !.description = description, !.services = services] :
     title \in {FormTitle, <<" ">>}, hero \in FormHeroes,
     gallery \in FormGalleries, meta \in FormMetas,
     description \in FormDescriptions,
     services \in {PLACEHOLDER_SERVICE, <<>>}}

AskValid(payload, allowIncompleteMedia) ==
  /\ ~formIn.asked
  /\ formIn' = [asked |-> TRUE, payload |-> payload,
                allowIncompleteMedia |-> allowIncompleteMedia]
  /\ formOut' = validationError(payload, allowIncompleteMedia)
  /\ UNCHANGED <<db, blobs, assetSeq, pc, call, attempt, snap, log, outcome,
                 gc, pre, slugIn, slugOut>>

NextValidate ==
  \E payload \in FormPayloads, allowIncompleteMedia \in BOOLEAN :
    AskValid(payload, allowIncompleteMedia)

SpecValidate == Init /\ [][NextValidate]_vars

(***************************************************************************)
(* SpecStrict: drafts are created, saved and published one request after   *)
(* the other, with payloads that have all, some or none of the media that  *)
(* publishing requires.                                                    *)
(***************************************************************************)
\* a location longer than the project schema's maxlength of 160
LongLocation == Rep("x", 161)

StrictPayloads(d) ==
  LET hero == formHero(d, FALSE)
      gallery == formGallery(d, FALSE)
  IN  {formPayload(<<"a">>, FormTitle, hero, gallery),
       formPayload(<<"a">>, FormTitle, NoHero, <<>>),
       formPayload(<<"a">>, FormTitle, hero, SubSeq(gallery, 1, 2)),
       formPayload(<<"a">>, FormTitle, [hero EXCEPT !.caption = <<>>], gallery),
       formPayload(<<"a">>, FormTitle, [hero EXCEPT !.src = NoUrl], gallery),
       [formPayload(<<"a">>, FormTitle, NoHero, <<>>) EXCEPT
          !.location = LongLocation]}

StrictMaxRevision == 3

StrictRequests(w) ==
  \/ createDraft(w, <<"t", "1">>)
  \/ \E id \in ProjectIds(db), payload \in StrictPayloads(db) :
       revisionOf(db, id) < StrictMaxRevision /\ saveDraft(w, id, payload, <<>>)
  \/ \E id \in ProjectIds(db), payload \in StrictPayloads(db) :
       revisionOf(db, id) < StrictMaxRevision /\ publish(w, id, payload, <<>>)

NextStrict ==
  \/ AllIdle /\ StrictRequests("w1")
  \/ FinishAttempt("w1")
  \/ GcSteps("w1")
  \/ Return("w1")

SpecStrict == Init /\ [][NextStrict]_vars

(***************************************************************************)
(* SpecUnpublish: drafts are created, saved, published and unpublished,    *)
(* one request after the other.                                            *)
(***************************************************************************)
UnpublishPayloads(d) ==
  {formPayload(slug, FormTitle, formHero(d, FALSE), formGallery(d, FALSE)) :
     slug \in {<<"a">>, <<"b">>}}

UnpublishMaxRevision == 3

UnpublishRequests(w) ==
  \/ createDraft(w, <<"t", "1">>)
  \/ \E id \in ProjectIds(db), payload \in UnpublishPayloads(db) :
       /\ revisionOf(db, id) < UnpublishMaxRevision
       /\ publish(w, id, payload, <<>>)
  \/ \E id \in ProjectIds(db) :
       /\ revisionOf(db, id) < UnpublishMaxRevision
       /\ saveDraft(w, id, formPayload(<<"a">>, FormTitle, NoHero, <<>>), <<>>)
  \/ \E id \in ProjectIds(db), payload \in UnpublishPayloads(db) :
       unpublish(w, id, payload)

NextUnpublish ==
  \/ AllIdle /\ UnpublishRequests("w1")
  \/ FinishAttempt("w1")
  \/ GcSteps("w1")
  \/ Return("w1")

SpecUnpublish == Init /\ [][NextUnpublish]_vars

(***************************************************************************)
(* SpecLookup: two workers save two drafts at the same time, with payloads *)
(* that name new categories, services, collaborators and gallery images,   *)
(* the same label under two spellings, and the same new label or URL twice *)
(* in one list.                                                            *)
(***************************************************************************)
LookupDb ==
  RaceCreated(RaceCreated(EmptyDb, 0, <<"t", "1">>), 0, <<"t", "2">>)

InitLookup ==
  /\ db = LookupDb
  /\ blobs = {"k1", "k2", "k3"}
  /\ assetSeq = 0
  /\ pc = [w \in Workers |-> "idle"]
  /\ call = [w \in Workers |-> NoCall]
  /\ attempt = [w \in Workers |-> 0]
  /\ snap = [w \in Workers |-> EmptyDb]
  /\ log = [w \in Workers |-> NoLog]
  /\ outcome = [w \in Workers |-> NoError]
  /\ gc = [w \in Workers |-> NoGc]
  /\ pre = [w \in Workers |-> EmptyDb]
  /\ slugIn = NoSlugIn
  /\ slugOut = <<>>
  /\ formIn = NoFormIn
  /\ formOut = NoError

Design == <<"D", "e", "s", "i", "g", "n">>
Build == <<"B", "u", "i", "l", "d">>
AnnOfOrg == <<"A", "n", "n", " ", "em_dash", " ", "O", "r", "g">>
BoAlone == <<"B", "o">>

\* a gallery entry submitted as the URL of an uploaded object
urlEntry(key) ==
  [assetId |-> 0, src |-> getPublicUrlForKey(key), caption |-> <<"V", "i", "e", "w">>]

\* a gallery entry whose id is the one the editor's form holds for the
\* image of idKey, and whose URL is that of urlKey
idEntry(d, idKey, urlKey) ==
  [assetId |-> knownAssetId(d, getPublicUrlForKey(idKey)),
   src |-> getPublicUrlForKey(urlKey), caption |-> <<"V", "i", "e", "w">>]

labelPayload(slug, category, services, collaborators, gallery) ==
  [formPayload(slug, FormTitle, NoHero, gallery) EXCEPT
     !.category = category, !.services = services,
     !.collaborators = collaborators]

\* each project keeps a slug of its own
LookupSlug(projectId) == IF projectId = 1 THEN <<"a">> ELSE <<"b">>

LookupPayloads(d, projectId) ==
  {labelPayload(LookupSlug(projectId), <<"H", "o", "u", "s", "i", "n", "g">>,
                <<Design>>, <<AnnOfOrg>>, <<urlEntry("k1")>>),
   labelPayload(LookupSlug(projectId), <<"h", "o", "u", "s", "i", "n", "g", " ">>,
                <<toLowerCase(Design) \o <<" ">>, Build>>, <<AnnOfOrg, BoAlone>>,
                <<urlEntry("k2")>>),
   labelPayload(LookupSlug(projectId), <<"H", "o", "u", "s", "i", "n", "g">>,
                <<Build, Build>>, <<AnnOfOrg>>, <<>>),
   labelPayload(LookupSlug(projectId), <<"H", "o", "u", "s", "i", "n", "g">>,
                <<Design>>, <<BoAlone, BoAlone>>, <<>>),
   labelPayload(LookupSlug(projectId), <<"H", "o", "u", "s", "i", "n", "g">>,
                <<Design>>, <<AnnOfOrg>>, <<urlEntry("k3"), urlEntry("k3")>>),
   labelPayload(LookupSlug(projectId), <<"H", "o", "u", "s", "i", "n", "g">>,
                <<Design>>, <<AnnOfOrg>>,
                <<idEntry(d, "k1", "k1"), idEntry(d, "k1", "k2")>>)}

\* every draft is saved once: no save takes an image away, and no
\* collection pass follows
LookupMaxRevision == 2

LookupRequests(w) ==
  /\ pc[w] = "idle"
  /\ \E id \in ProjectIds(db) :
       \E payload \in LookupPayloads(db, id) :
         /\ revisionOf(db, id) < LookupMaxRevision
         /\ saveDraft(w, id, payload, <<>>)

NextLookup ==
  \E w \in Workers :
    \/ LookupRequests(w)
    \/ FinishAttempt(w)
    \/ Backoff(w)
    \/ Return(w)

SpecLookup == InitLookup /\ [][NextLookup]_vars

(***************************************************************************)
(* SpecSwap: one draft is saved and published, one request after the       *)
(* other, with payloads that move an image between the hero and the        *)
(* gallery.                                                                *)
(***************************************************************************)
urlHero(key) ==
  [src |-> getPublicUrlForKey(key), assetId |-> 0, caption |-> <<"H", "e", "r", "o">>]

SwapPayloads ==
  {formPayload(<<"a">>, FormTitle, urlHero("k1"), <<urlEntry("k2")>>),
   formPayload(<<"a">>, FormTitle, urlHero("k2"), <<urlEntry("k1")>>),
   formPayload(<<"a">>, FormTitle, urlHero("k1"), <<urlEntry("k1"), urlEntry("k3")>>),
   formPayload(<<"a">>, FormTitle, NoHero, <<urlEntry("k1")>>),
   formPayload(<<"a">>, FormTitle, NoHero, <<>>)}

SwapMaxRevision == 4

SwapRequests(w) ==
  \/ Cardinality(db.projects) < 1 /\ createDraft(w, <<"t", "1">>)
  \/ \E id \in ProjectIds(db), payload \in SwapPayloads :
       /\ revisionOf(db, id) < SwapMaxRevision
       /\ saveDraft(w, id, payload, <<>>)
  \/ \E id \in ProjectIds(db), payload \in SwapPayloads :
       /\ revisionOf(db, id) < SwapMaxRevision
       /\ publish(w, id, payload, <<>>)

NextSwap ==
  \/ AllIdle /\ SwapRequests("w1")
  \/ FinishAttempt("w1")
  \/ GcSteps("w1")
  \/ Return("w1")

SpecSwap == Init /\ [][NextSwap]_vars

(***************************************************************************)
(* Properties.                                                             *)
(***************************************************************************)
\* the assets a project or a published snapshot shows
assetIdsOf(doc) ==
  ({doc.hero.assetId} \cup {doc.gallery[i].assetId : i \in DOMAIN doc.gallery})
    \ {0}

LiveRef(d, assetId) ==
  \E p \in d.projects : ~p.deleted /\ assetId \in assetIdsOf(p)

SnapshotRef(d, assetId) ==
  \E x \in d.publishedProjects : assetId \in assetIdsOf(x)

Committing(w) == pc[w] = "txn" /\ pc'[w] \in {"done", "gcFind"}

\* C1: in every committed state a project has a published snapshot if and
\* only if its status is published.
SnapshotIffPublished ==
  \A p \in db.projects :
    (\E x \in db.publishedProjects : x.projectId = p._id)
      <=> p.status = "published"

\* C2: with the requests served one after the other, no step removes the
\* MediaAsset row, or the blob, of an asset that a live project shows in its
\* hero or gallery.
GcKeepsAssetsOfLiveProjects ==
  [][\A a \in db.mediaAssets :
       LiveRef(db, a._id) =>
         /\ a \in db'.mediaAssets
         /\ a.storageKey \in blobs => a.storageKey \in blobs']_vars

\* a pass has ended that found a candidate still shown by another live
\* project, and has left its row and its blob
GcKeptSharedAsset ==
  /\ pc["w1"] = "done"
  /\ call["w1"].op \in {"save", "publish"}
  /\ \E a \in gc["w1"].assets :
       /\ a._id \in Range(gc["w1"].candidates)
       /\ a \notin gc["w1"].deletable
       /\ a \in db.mediaAssets /\ a.storageKey \in blobs
       /\ \E p \in db.projects :
            /\ ~p.deleted /\ p._id # call["w1"].projectId
            /\ a._id \in assetIdsOf(p)
       /\ \E p \in db.projects :
            p._id = call["w1"].projectId /\ a._id \notin assetIdsOf(p)

\* C3: no step removes the MediaAsset row, or the blob, of an asset that a
\* published snapshot shows in its hero or gallery.
GcKeepsAssetsOfSnapshots ==
  [][\A a \in db.mediaAssets :
       SnapshotRef(db, a._id) =>
         /\ a \in db'.mediaAssets
         /\ a.storageKey \in blobs => a.storageKey \in blobs']_vars

\* base-N
suffixed(base, n) == base \o <<"-">> \o numberToString(n)

\* the base, or base-N for the smallest positive N that is free
ExpectedSlug(base, taken) ==
  IF base \notin taken THEN base
  ELSE suffixed(base,
         CHOOSE n \in 1..(Cardinality(taken) + 1) :
           /\ suffixed(base, n) \notin taken
           /\ \A m \in 1..(n - 1) : suffixed(base, m) \in taken)

\* C6: with the requests served one after the other, no two projects hold
\* the same slug, and a save of a live project with a valid payload commits
\* and stores the normalized base, or base-N for the smallest positive N for
\* which base-N is not the slug of another project.
SequentialSlugs ==
  /\ \A p, q \in db.projects : p.slug = q.slug => p._id = q._id
  /\ \A w \in Workers :
       (/\ pc[w] \in {"done", "failed"}
        /\ call[w].op = "save"
        /\ findLiveProject(pre[w], call[w].projectId) # {}
        /\ validateAdminPayload(call[w].payload, TRUE) = <<>>)
       => /\ outcome[w] = NoError
          /\ \A p \in db.projects :
               p._id = call[w].projectId =>
                 p.slug = ExpectedSlug(
                            slugify(call[w].payload.slug),
                            {q.slug : q \in {x \in pre[w].projects :
                                               x._id # p._id}})

\* C9: while a saveDraft, publish, deleteDraft or duplicate has not
\* committed, and after it has failed, every collection is as it was when the
\* call started.
FailedCallChangesNothing ==
  \A w \in Workers :
    (pc[w] \in {"txn", "backoff", "failed"} /\ call[w].op # "create")
      => db = pre[w]

\* a publish has failed at its commit, after the closure's writes, and the
\* store is as it was
FailedAfterWrites ==
  /\ pc["w1"] = "failed"
  /\ call["w1"].op = "publish"
  /\ outcome["w1"] = FatalStoreError
  /\ RunClosure(call["w1"], snap["w1"], FreshIds).err = NoError
  /\ RunClosure(call["w1"], snap["w1"], FreshIds).db # db
  /\ db = pre["w1"]

\* C10: runWithTransaction runs the closure at most three times, each run
\* but the first after a transient error and a delay of 100 ms, then 200 ms;
\* a call that fails throws the error of its last run, which is the third
\* when that error is transient; a call that commits commits once, in its
\* last run.
RetryDiscipline ==
  \A w \in Workers :
    LET l == log[w]
        n == Len(l.errors)
    IN  /\ l.runs <= 3
        /\ l.delays \in {<<>>, <<100>>, <<100, 200>>}
        /\ pc[w] # "idle" => l.runs = Len(l.delays) + 1
        /\ \A i \in 1..Len(l.delays) : isTransientTransactionError(l.errors[i])
        /\ pc[w] = "backoff" =>
             n = l.runs /\ isTransientTransactionError(l.errors[n])
        /\ pc[w] = "failed" =>
             /\ n = l.runs /\ l.commits = 0
             /\ outcome[w] = l.errors[n]
             /\ isTransientTransactionError(outcome[w]) => l.runs = 3
        /\ l.commits <= 1
        /\ pc[w] = "txn" => l.commits = 0 /\ n = l.runs - 1
        /\ pc[w] \in {"done", "gcFind", "gcCheck", "gcRows", "gcBlobs"} =>
             l.commits = 1 /\ n = l.runs - 1

\* the third run has failed with a transient error other than the second's,
\* and the call has thrown it
ThirdRunFailed ==
  /\ pc["w1"] = "failed"
  /\ log["w1"].runs = 3
  /\ log["w1"].delays = <<100, 200>>
  /\ log["w1"].errors[2] = TransientStoreError
  /\ log["w1"].errors[3] = WriteConflictError
  /\ outcome["w1"] = WriteConflictError

\* C4: no live project shows, in its hero or gallery, an asset whose
\* MediaAsset row is gone.
NoDanglingAssetRef ==
  \A p \in db.projects :
    ~p.deleted =>
      \A id \in assetIdsOf(p) : \E a \in db.mediaAssets : a._id = id

versionRows(d, projectId) == {v \in d.projectVersions : v.projectId = projectId}

\* C5: the commit of a saveDraft or publish raises the project's revision
\* by one and adds one ProjectVersion row, of the new revision, to the
\* project's rows; after every step each project has one row for each
\* revision up to its own, and none beyond.
RevisionStepsByOne ==
  [][/\ \A w \in Workers :
          (Committing(w) /\ call[w].op \in {"save", "publish"}) =>
            LET id == call[w].projectId
                added == versionRows(db', id) \ versionRows(db, id)
            IN  /\ revisionOf(db', id) = revisionOf(db, id) + 1
                /\ versionRows(db, id) \subseteq versionRows(db', id)
                /\ Cardinality(added) = 1
                /\ \A v \in added : v.version = revisionOf(db', id)
      /\ \A p \in db'.projects :
          /\ \A v \in versionRows(db', p._id) : v.version \in 1..p.revision
          /\ \A n \in 1..p.revision :
               Cardinality({v \in versionRows(db', p._id) : v.version = n}) = 1
    ]_vars

\* a save or publish has committed in its second run, after another
\* mutation of the same project committed first: two revisions since the
\* call started
CommittedAfterConflict ==
  \E w \in Workers :
    /\ pc[w] = "done"
    /\ call[w].op \in {"save", "publish"}
    /\ log[w].errors = <<WriteConflictError>>
    /\ log[w].commits = 1
    /\ log[w].slugRaces = 0
    /\ revisionOf(db, call[w].projectId)
         = revisionOf(pre[w], call[w].projectId) + 2

\* C7: no two projects hold the same slug, and no call whose attempt was
\* refused because another transaction had taken its slug ends in failure.
SlugRaceSafe ==
  /\ \A p, q \in db.projects : p.slug = q.slug => p._id = q._id
  /\ \A w \in Workers : pc[w] = "failed" => log[w].slugRaces = 0

\* C8: the slug ensureUniqueSlug returns has at most 60 characters, each of
\* them in [a-z0-9-].
SlugWellFormed ==
  slugIn.asked =>
    /\ Len(slugOut) <= 60
    /\ \A i \in DOMAIN slugOut : IsSlugChar(slugOut[i]) \/ slugOut[i] = "-"

\* C11: when the closure throws a ProjectValidationError or "Project not
\* found", runWithTransaction aborts, throws that very error, starts no
\* other run and waits for no delay; without an earlier transient error the
\* closure has run exactly once.
NonTransientFailsAtOnce ==
  [][\A w \in Workers :
       LET thrown == RunClosure(call[w], snap[w], FreshIds).err
       IN  (/\ pc[w] = "txn"
            /\ thrown.name \in {"ProjectValidationError", "Project not found"}
            /\ log'[w].errors = Append(log[w].errors, thrown))
           => /\ pc'[w] = "failed"
              /\ outcome'[w] = thrown
              /\ log'[w].runs = log[w].runs
              /\ log'[w].delays = log[w].delays
              /\ log'[w].commits = 0
              /\ log[w].errors = <<>> => log'[w].runs = 1
              /\ db' = db]_vars

\* a publish has thrown its validation error after one run and no delay
ValidationFailedOnce ==
  /\ pc["w1"] = "failed"
  /\ call["w1"].op = "publish"
  /\ outcome["w1"].name = "ProjectValidationError"
  /\ log["w1"].runs = 1
  /\ log["w1"].delays = <<>>
  /\ log["w1"].errors = <<outcome["w1"]>>


\* the messages of the rules a payload breaks, each rule taken on its own
brokenRules(payload, allowIncompleteMedia) ==
  LET p == payload
      strict == ~allowIncompleteMedia
  IN  When(IsBlank(p.title), "Title is required")
      \o When(Len(p.title) > 120, "Title max length is 120 characters")
      \o When(IsBlank(p.slug), "Slug is required")
      \o When(~IsBlank(p.slug) /\ ~matchesSlugPattern(p.slug),
              "Slug must use lowercase letters, numbers, and hyphen")
      \o When(Len(p.slug) > 60, "Slug max length is 60 characters")
      \o When(IsBlank(p.category), "Category is required")
      \o When(IsBlank(p.location), "Location is required")
      \o When(IsBlank(p.year), "Year is required")
      \o When(~IsBlank(p.year) /\ ~matchesYearPattern(trim(p.year)),
              "Year must match YYYY or YYYY-YY")
      \o When(strict /\ IsBlankUrl(p.heroImage), "Hero image URL is required")
      \o When(strict /\ IsBlank(p.heroCaption), "Hero caption is required")
      \o When(Len(p.heroCaption) > 140,
              "Hero caption max length is 140 characters")
      \o When(IsBlank(p.excerpt), "Excerpt is required")
      \o When(Len(p.excerpt) > 360, "Excerpt max length is 360 characters")
      \o When(Len(p.description) < 2,
              "Provide at least two description paragraphs")
      \o When(\E i \in DOMAIN p.description :
                 Len(trim(p.description[i])) < 80,
              "Each description paragraph must be at least 80 characters")
      \o When(Len(p.meta) < 3, "Meta list requires at least three items")
      \o When(\E i, j \in DOMAIN p.meta :
                 /\ i # j /\ ~IsBlank(p.meta[i].label)
                 /\ toLowerCase(trim(p.meta[i].label))
                      = toLowerCase(trim(p.meta[j].label)),
              "Meta labels must be unique")
      \o When(\E i \in DOMAIN p.meta :
                 IsBlank(p.meta[i].label) \/ IsBlank(p.meta[i].value),
              "Meta items require label and value")
      \o When(Len(p.services) = 0, "Include at least one service")
      \o When(Len(p.collaborators) = 0, "Include at least one collaborator")
      \o When(strict /\ Len(p.gallery) < 3,
              "Gallery requires at least three images")
      \o When(Len(p.gallery) > 15, "Gallery can include up to fifteen images")
      \o When(strict /\ \E i \in DOMAIN p.gallery :
                            IsBlankUrl(p.gallery[i].src)
                            \/ IsBlank(p.gallery[i].caption),
              "Gallery entries require image URL and caption")

\* C13: validateAdminPayload throws one ProjectValidationError whose details
\* hold the message of every rule the payload breaks, and throws nothing
\* when it breaks none.
EveryBrokenRuleReported ==
  formIn.asked =>
    LET broken == brokenRules(formIn.payload, formIn.allowIncompleteMedia)
    IN  IF broken = <<>> THEN formOut = NoError
        ELSE /\ formOut.name = "ProjectValidationError"
             /\ Range(broken) \subseteq Range(formOut.details)


\* the payload lacks media that publishing requires
lacksMedia(payload) ==
  \/ Len(payload.gallery) < 3
  \/ IsBlankUrl(payload.heroImage)
  \/ IsBlank(payload.heroCaption)

\* the payload breaks none of the rules of both modes and its slug is held
\* by no other project
keepsLooseRules(d, projectId, payload) ==
  /\ brokenRules(payload, TRUE) = <<>>
  /\ \A q \in d.projects : q._id # projectId => q.slug # payload.slug

\* C12: with a payload that keeps every rule of both modes but lacks media
\* that publishing requires, publish fails with a validation error and
\* changes nothing, and saveDraft succeeds and leaves the project a draft.
StrictLooseSplit ==
  \A w \in Workers :
    LET c == call[w]
    IN  (/\ c.op \in {"save", "publish"}
         /\ pc[w] \notin {"idle", "txn"}
         /\ findLiveProject(pre[w], c.projectId) # {}
         /\ keepsLooseRules(pre[w], c.projectId, c.payload)
         /\ lacksMedia(c.payload))
        => IF c.op = "publish"
             THEN /\ pc[w] = "failed"
                  /\ outcome[w].name = "ProjectValidationError"
                  /\ db = pre[w]
             ELSE /\ pc[w] # "failed"
                  /\ \A p \in db.projects :
                       p._id = c.projectId => p.status = "draft"


historyRows(d, projectId) == {h \in d.projectHistory : h.projectId = projectId}

\* C14: the commit of a publish leaves the project published, with exactly
\* one snapshot, whose slug, title, excerpt and gallery are those the
\* project now has, which are those of the payload; it adds one version row
\* (source publish, published) and one history entry (published).
PublishWritesSnapshot ==
  [][\A w \in Workers :
       (Committing(w) /\ call[w].op = "publish") =>
         LET id == call[w].projectId
             payload == call[w].payload
             rows == {p \in db'.projects : p._id = id}
             snapshots == {x \in db'.publishedProjects : x.projectId = id}
             versions == versionRows(db', id) \ versionRows(db, id)
             entries == historyRows(db', id) \ historyRows(db, id)
         IN  /\ Cardinality(rows) = 1
             /\ Cardinality(snapshots) = 1
             /\ \A p \in rows, x \in snapshots :
                  /\ p.status = "published"
                  /\ p.title = payload.title /\ p.excerpt = payload.excerpt
                  /\ Len(p.gallery) = Len(payload.gallery)
                  /\ x.slug = p.slug /\ x.title = p.title
                  /\ x.excerpt = p.excerpt /\ x.gallery = p.gallery
                  /\ versions = {[projectId |-> id, version |-> p.revision,
                                  status |-> "published", source |-> "publish",
                                  published |-> TRUE]}
             /\ Cardinality(entries) = 1
             /\ \A h \in entries :
                  h.action = "published" /\ h.toStatus = "published"]_vars

\* a publish of a project that had a snapshot has committed, and the
\* project's snapshot is another than before
Republished ==
  LET id == call["w1"].projectId
      before == {x \in pre["w1"].publishedProjects : x.projectId = id}
      after == {x \in db.publishedProjects : x.projectId = id}
  IN  /\ pc["w1"] = "done"
      /\ call["w1"].op = "publish"
      /\ before # {}
      /\ after # before


\* C15: an unpublish of a published project succeeds: the project is a
\* draft that fetchAdminProject returns, it has no snapshot (none under its
\* slug either), and one history entry "unpublished" has been added.
UnpublishRemovesSnapshot ==
  \A w \in Workers :
    LET id == call[w].projectId
        entries == historyRows(db, id) \ historyRows(pre[w], id)
    IN  (/\ call[w].op = "unpublish"
         /\ pc[w] \notin {"idle", "txn", "backoff"}
         /\ \E p \in pre[w].projects : p._id = id /\ p.status = "published")
        => /\ pc[w] # "failed"
           /\ \E p \in fetchAdminProject(db, id) : p.status = "draft"
           /\ \A p \in fetchAdminProject(db, id) :
                \A x \in db.publishedProjects :
                  x.projectId # id /\ x.slug # p.slug
           /\ Cardinality(entries) = 1
           /\ \A h \in entries : h.action = "unpublished"


\* C16: after a saveDraft of a published project has committed, the
\* project is still published and its snapshot shows the slug, title,
\* excerpt and gallery the save has written.
SaveRefreshesSnapshot ==
  \A w \in Workers :
    LET id == call[w].projectId
    IN  (/\ call[w].op = "save"
         /\ pc[w] \in {"done", "gcFind", "gcCheck", "gcRows", "gcBlobs"}
         /\ \E p \in pre[w].projects : p._id = id /\ p.status = "published")
        => \A p \in db.projects :
             p._id = id =>
               /\ p.status = "published"
               /\ \E x \in db.publishedProjects :
                    /\ x.projectId = id
                    /\ x.slug = p.slug /\ x.title = p.title
                    /\ x.excerpt = p.excerpt /\ x.gallery = p.gallery


\* C17: the commit of a deleteDraft keeps the project's row and changes in
\* it only the status, now archived, and the deletion mark; it removes the
\* project's snapshot and adds exactly one history entry, "deleted", from
\* the status the project had; fetchAdminProject then finds nothing and
\* fetchAdminProjects leaves the project out.
DeleteArchives ==
  [][\A w \in Workers :
       (Committing(w) /\ call[w].op = "delete") =>
         LET id == call[w].projectId
             before == {p \in db.projects : p._id = id}
             after == {p \in db'.projects : p._id = id}
             entries == historyRows(db', id) \ historyRows(db, id)
         IN  /\ Cardinality(before) = 1 /\ Cardinality(after) = 1
             /\ db'.projects \ after = db.projects \ before
             /\ \A p \in before :
                  /\ ~p.deleted
                  /\ after = {[p EXCEPT !.status = "archived",
                                        !.deleted = TRUE]}
                  /\ entries = {[projectId |-> id, action |-> "deleted",
                                 fromStatus |-> p.status,
                                 toStatus |-> "archived",
                                 snapshotVersion |-> 0,
                                 seq |-> Cardinality(historyRows(db, id)) + 1]}
             /\ \A x \in db'.publishedProjects : x.projectId # id
             /\ fetchAdminProject(db', id) = {}
             /\ \A p \in fetchAdminProjects(db') : p._id # id]_vars

\* the delete of a published project has committed: its snapshot is gone
DeletedPublished ==
  LET id == call["w1"].projectId
  IN  /\ call["w1"].op = "delete"
      /\ pc["w1"] \in {"done", "gcFind"}
      /\ \E p \in pre["w1"].projects : p._id = id /\ p.status = "published"
      /\ \E x \in pre["w1"].publishedProjects : x.projectId = id
      /\ \E p \in db.projects : p._id = id /\ p.status = "archived"


\* a project gets status archived only in the commit of its delete, and an
\* archived project's row stays as it is
archivedByDeleteOnly ==
  /\ \A p \in db'.projects :
       (p.status = "archived" /\ p \notin db.projects) =>
         \E w \in Workers :
           /\ Committing(w) /\ call[w].op = "delete"
           /\ call[w].projectId = p._id
  /\ \A p \in db.projects : p.status = "archived" => p \in db'.projects

\* the project of the worker's call was archived when the call started, and
\* the call has ended
calledOnArchived(w) ==
  /\ call[w].op \in {"save", "publish", "delete", "duplicate"}
  /\ pc[w] \notin {"idle", "txn"}
  /\ \E p \in pre[w].projects :
       p._id = call[w].projectId /\ p.status = "archived"

\* the call has failed in its only run and the store is as it was
failedAtOnce(w) ==
  /\ pc[w] = "failed"
  /\ log[w].runs = 1 /\ log[w].delays = <<>>
  /\ db = pre[w]

\* C18 as stated: archived is reached by delete only and is terminal, and
\* every saveDraft, publish, deleteDraft and duplicate on an archived
\* project fails with "Project not found", in one run, changing nothing.
ArchivedCallsNotFound ==
  [][/\ archivedByDeleteOnly
     /\ \A w \in Workers :
          (calledOnArchived(w) => failedAtOnce(w) /\ outcome[w] = ProjectNotFound)'
    ]_vars

\* C18 as amended: the same, but a saveDraft or publish whose payload breaks
\* a rule of its mode fails with that ProjectValidationError, which is
\* raised before the project is looked up.
ArchivedCallsFail ==
  [][/\ archivedByDeleteOnly
     /\ \A w \in Workers :
          (calledOnArchived(w) =>
             /\ failedAtOnce(w)
             /\ outcome[w] =
                  IF call[w].op \in {"save", "publish"}
                    THEN IF validationError(call[w].payload,
                                            call[w].op = "save") # NoError
                           THEN validationError(call[w].payload,
                                                call[w].op = "save")
                           ELSE ProjectNotFound
                    ELSE ProjectNotFound)'
    ]_vars

\* a publish with a valid payload on an archived project has failed with
\* "Project not found"
PublishOnArchivedFailed ==
  /\ calledOnArchived("w1")
  /\ call["w1"].op = "publish"
  /\ outcome["w1"] = ProjectNotFound
  /\ \E p \in db.projects : p._id = call["w1"].projectId /\ p.revision > 1


\* the project is a fresh draft copy of the source under the given slug
copyOf(source, copy, slug) ==
  copy = [source EXCEPT
            !._id = copy._id, !.slug = slug,
            !.title = source.title \o <<" ", "(", "C", "o", "p", "y", ")">>,
            !.status = "draft", !.revision = 1, !.publishedAt = FALSE,
            !.deleted = FALSE]

\* C19: a duplicate of a project that is not archived succeeds.  It adds
\* one project: a draft of revision 1 with a new id, no publish time, the
\* free slug derived from <source slug>-copy and the source's content in the
\* source's order; it adds no snapshot, leaves every other project and
\* every earlier version and history row as they were, and writes one
\* history entry, "duplicated", for the new id.
DuplicateMakesDraftCopy ==
  \A w \in Workers :
    LET id == call[w].projectId
        added == db.projects \ pre[w].projects
        entries == db.projectHistory \ pre[w].projectHistory
    IN  (/\ call[w].op = "duplicate"
         /\ pc[w] \notin {"idle", "txn", "backoff"}
         /\ findLiveProject(pre[w], id) # {})
        => /\ pc[w] # "failed"
           /\ Cardinality(added) = 1
           /\ pre[w].projects \subseteq db.projects
           /\ \A source \in findLiveProject(pre[w], id), copy \in added :
                /\ copy._id \notin ProjectIds(pre[w])
                /\ copyOf(source, copy,
                          ExpectedSlug(
                            slugify(source.slug \o <<"-", "c", "o", "p", "y">>),
                            {q.slug : q \in pre[w].projects}))
                /\ \A x \in db.publishedProjects : x.projectId # copy._id
                /\ Cardinality(entries) = 1
                /\ \A h \in entries :
                     h.projectId = copy._id /\ h.action = "duplicated"
           /\ db.publishedProjects = pre[w].publishedProjects
           /\ pre[w].projectVersions \subseteq db.projectVersions
           /\ pre[w].projectHistory \subseteq db.projectHistory


\* the order values of the list are 0, 1, ..., n-1 from its first entry on
orderedFromZero(list) == \A i \in DOMAIN list : list[i].order = i - 1

\* C20: in every committed state, which createDraft, saveDraft, publish and
\* duplicate have written, each project's description, meta, service,
\* collaborator and gallery list carries the order values 0..n-1, each once,
\* in the order of the list.
OrdersAreContiguous ==
  \A p \in db.projects :
    /\ orderedFromZero(p.descriptionBlocks)
    /\ orderedFromZero(p.meta)
    /\ orderedFromZero(p.services)
    /\ orderedFromZero(p.collaborators)
    /\ orderedFromZero(p.gallery)

\* a duplicate of a project with a gallery has committed
DuplicatedWithGallery ==
  /\ call["w1"].op = "duplicate"
  /\ pc["w1"] = "done"
  /\ \E copy \in db.projects \ pre["w1"].projects :
       /\ Len(copy.gallery) = 3
       /\ Len(copy.meta) = 3
       /\ Len(copy.descriptionBlocks) = 2


\* the service, collaborator and category rows a project's entries name
\* are the rows that carry the entries' labels
refersToItsLabels(d, p) ==
  /\ \E c \in d.categories :
       c._id = p.categoryId /\ c.slug = slugifyTo(p.categoryLabel, 60)
  /\ \A i \in DOMAIN p.services :
       \E x \in d.services :
         /\ x._id = p.services[i].serviceId
         /\ x.slug = slugifyTo(trim(p.services[i].label), 80)
  /\ \A i \in DOMAIN p.collaborators :
       \E x \in d.collaborators :
         /\ x._id = p.collaborators[i].collaboratorId
         /\ [displayName |-> x.displayName, organization |-> x.organization]
              = parseCollaboratorLabel(p.collaborators[i].label)

\* C21: after any sequence of committed mutations, also of two projects at
\* the same time, there is at most one Category per slug, one Service per
\* slug and one Collaborator per (displayName, organization), and every
\* project that names a label refers to that one row: the same label
\* resolves to the same id from every project.
LookupsAreShared ==
  /\ \A a, b \in db.categories : a.slug = b.slug => a = b
  /\ \A a, b \in db.services : a.slug = b.slug => a = b
  /\ \A a, b \in db.collaborators :
       (a.displayName = b.displayName /\ a.organization = b.organization)
         => a = b
  /\ \A p \in db.projects : refersToItsLabels(db, p)

\* both projects were saved at the same time with the new label "Design",
\* under two spellings; the second commit came after a conflict and both
\* refer to the one row
SharedAfterConflict ==
  /\ \E w \in Workers :
       pc[w] = "done" /\ log[w].errors = <<WriteConflictError>>
  /\ \E p, q \in db.projects :
       /\ p._id # q._id
       /\ p.services # <<>> /\ q.services # <<>>
       /\ p.services[1].label = Design
       /\ q.services[1].label = toLowerCase(Design) \o <<" ">>
       /\ p.services[1].serviceId = q.services[1].serviceId


\* C22: no step of a saveDraft, whatever the project's status, inserts,
\* updates or deletes a published snapshot: the snapshot collection stays
\* as it was before the save.
SaveLeavesSnapshots ==
  [][\A w \in Workers :
       call[w].op = "save" =>
         db'.publishedProjects = db.publishedProjects]_vars

\* a saveDraft of a published project has committed with another gallery
\* than the snapshot shows, and the snapshots are those from before the save
SavedPublishedKeptSnapshot ==
  LET id == call["w1"].projectId
  IN  /\ pc["w1"] = "done"
      /\ call["w1"].op = "save"
      /\ log["w1"].commits = 1
      /\ db.publishedProjects = pre["w1"].publishedProjects
      /\ \E p \in db.projects, x \in db.publishedProjects :
           /\ p._id = id /\ x.projectId = id
           /\ p.gallery # x.gallery


\* the order the transaction's writes are said to happen in
StatedWriteOrder ==
  <<"projects", "publishedProjects", "projectVersions", "projectHistory">>

\* C23: a committed saveDraft, publish or deleteDraft has written the
\* project first, then the snapshot, then the version row, then the history
\* entry (each of them if it writes it at all), and the store took all of
\* these writes in the one step of the commit.
WritesInStatedOrder ==
  \A w \in Workers :
    (/\ call[w].op \in {"save", "publish", "delete"}
     /\ log[w].commits = 1)
      => /\ log[w].writes # <<>>
         /\ log[w].writes
              = SelectSeq2(StatedWriteOrder, Range(log[w].writes))


\* C24: the step that commits a createDraft, saveDraft, publish or duplicate
\* adds exactly one version row, whose version is the revision the project
\* now has, and exactly one history entry, whose snapshotVersion is that
\* revision; the step that commits a deleteDraft adds one history entry and
\* no version row; no other step (an abort, a backoff, a retry, a step of
\* the collection pass) adds or removes a row of either collection.
OneVersionOneEntryPerCommit ==
  [][LET versions == db'.projectVersions \ db.projectVersions
         entries == db'.projectHistory \ db.projectHistory
     IN  /\ db.projectVersions \subseteq db'.projectVersions
         /\ db.projectHistory \subseteq db'.projectHistory
         /\ (\A w \in Workers : ~Committing(w))
              => versions = {} /\ entries = {}
         /\ \A w \in Workers :
              Committing(w) =>
                LET written ==
                      IF call[w].op \in {"create", "duplicate"}
                        THEN db'.projects \ db.projects
                        ELSE {p \in db'.projects : p._id = call[w].projectId}
                IN  /\ Cardinality(written) = 1
                    /\ Cardinality(entries) = 1
                    /\ \A p \in written, h \in entries :
                         /\ h.projectId = p._id
                         /\ IF call[w].op = "delete"
                              THEN versions = {} /\ h.action = "deleted"
                              ELSE /\ h.snapshotVersion = p.revision
                                   /\ Cardinality(versions) = 1
                                   /\ \A v \in versions :
                                        /\ v.projectId = p._id
                                        /\ v.version = p.revision]_vars

\* a save has committed at its third run, after two attempts that the store
\* interrupted at their commits, and the project has one version row and
\* one history entry for each of its revisions
CommittedAtThirdRun ==
  LET id == call["w1"].projectId
  IN  /\ pc["w1"] = "done"
      /\ call["w1"].op = "save"
      /\ log["w1"].runs = 3 /\ log["w1"].commits = 1
      /\ Len(log["w1"].errors) = 2
      /\ \E p \in db.projects :
           /\ p._id = id
           /\ p.revision = 2
           /\ Cardinality(versionRows(db, id)) = 2
           /\ Cardinality(historyRows(db, id)) = 2


\* C25: the candidates handed to the collection pass by a committed
\* saveDraft or publish are, as a set, the assets the project showed before
\* (hero and gallery) without those it shows now; an asset that moved
\* between the hero and the gallery is not among them.
CandidatesAreTheDifference ==
  \A w \in Workers :
    (/\ call[w].op \in {"save", "publish"}
     /\ log[w].commits = 1)
      => \A p \in pre[w].projects, q \in db.projects :
           (p._id = call[w].projectId /\ q._id = call[w].projectId)
             => Range(gc[w].candidates)
                  = (assetIdsOf(p) \ {0}) \ assetIdsOf(q)


\* where the collection pass stands, counted from its first call
gcRank(at) ==
  CASE at = "gcFind" -> 1 [] at = "gcCheck" -> 2 [] at = "gcRows" -> 3
    [] at = "gcBlobs" -> 4 [] OTHER -> 5

\* C26: the collection pass runs only for a mutation that has committed; a
\* step of the pass, a failing one included, leaves the projects, the
\* snapshots, the version rows and the history as the commit left them and
\* raises no error, so that the call returns its result; the pass only
\* moves forward, and after its end or its failure the call does nothing
\* but return.
GcAfterCommitAndSwallowed ==
  [][\A w \in Workers :
       /\ pc'[w] \in {"gcFind", "gcCheck", "gcRows", "gcBlobs"}
            => /\ log'[w].commits = 1
               /\ outcome'[w] = NoError
               /\ call'[w].op \in {"save", "publish", "delete"}
       /\ pc[w] \in {"gcFind", "gcCheck", "gcRows", "gcBlobs"}
            => /\ db'.projects = db.projects
               /\ db'.publishedProjects = db.publishedProjects
               /\ db'.projectVersions = db.projectVersions
               /\ db'.projectHistory = db.projectHistory
               /\ outcome'[w] = NoError
               /\ pc'[w] \in {"gcFind", "gcCheck", "gcRows", "gcBlobs", "done"}
               /\ gcRank(pc'[w]) >= gcRank(pc[w])
               /\ log'[w] = log[w]
       /\ (pc[w] = "done" /\ pc'[w] # "done") => pc'[w] = "idle"]_vars

\* the pass of a committed save failed after it had deleted the asset rows
\* and before it deleted their blobs: the call is done without an error
GcFailedBeforeBlobs ==
  /\ pc["w1"] = "done"
  /\ call["w1"].op = "save"
  /\ log["w1"].commits = 1
  /\ outcome["w1"] = NoError
  /\ gc["w1"].deletable # {}
  /\ \A a \in gc["w1"].deletable :
       a \notin db.mediaAssets /\ a.storageKey \in blobs


\* C27: when a deleteDraft has committed and its collection pass has run to
\* its end, every asset the deleted project showed that no live project and
\* no snapshot shows is gone: its row and its blob are deleted.
DeleteCollectsAssets ==
  \A w \in Workers :
    (/\ call[w].op = "delete"
     /\ pc[w] = "done"
     /\ log[w].commits = 1)
      => \A p \in pre[w].projects :
           p._id = call[w].projectId =>
             \A a \in pre[w].mediaAssets :
               (/\ a._id \in assetIdsOf(p)
                /\ ~LiveRef(db, a._id)
                /\ ~SnapshotRef(db, a._id))
                 => /\ \A x \in db.mediaAssets : x._id # a._id
                    /\ a.storageKey \notin blobs


\* the asset bound to a submitted id and URL, read against the store d the
\* transaction saw: the asset of the id if there is one, else the asset of
\* the URL if there is one, else a row among those the commit created
boundByRule(d, created, assetId, src, bound) ==
  LET byId == {a \in d.mediaAssets : assetId # 0 /\ a._id = assetId}
      byUrl == {a \in d.mediaAssets : a.publicUrl = src}
  IN  IF byId # {} THEN bound = assetId
      ELSE IF IsBlankUrl(src) THEN bound = 0
      ELSE IF byUrl # {} THEN \E a \in byUrl : bound = a._id
      ELSE \E a \in created : a._id = bound /\ a.publicUrl = src

\* C28: in the step that commits a saveDraft or publish, the hero and every
\* gallery entry are bound by the rule (the asset of the submitted id if it
\* exists, else the asset of the submitted URL if it exists, else one new
\* row); every row the commit adds is bound to an entry; and no two asset
\* rows share a publicUrl, whatever the payloads repeat.
AssetsReusedBeforeCreated ==
  [][\A w \in Workers :
       (Committing(w) /\ call[w].op \in {"save", "publish"}) =>
         LET payload == call[w].payload
             created == db'.mediaAssets \ db.mediaAssets
         IN  /\ \A q \in db'.projects :
                  q._id = call[w].projectId =>
                    /\ boundByRule(snap[w], created, payload.heroAssetId,
                                   payload.heroImage, q.hero.assetId)
                    /\ \A i \in DOMAIN payload.gallery :
                         boundByRule(snap[w], created,
                                     payload.gallery[i].assetId,
                                     payload.gallery[i].src,
                                     q.gallery[i].assetId)
                    /\ \A a \in created : a._id \in assetIdsOf(q)
             /\ \A a \in created :
                  \A x \in snap[w].mediaAssets : x.publicUrl # a.publicUrl
             /\ \A a, b \in db'.mediaAssets :
                  a.publicUrl = b.publicUrl => a = b]_vars

\* a save has committed that submitted the id of an asset another project
\* had created from its URL, once with that URL and once with another: both
\* entries are bound to that asset and no row was created
BoundById ==
  \E w \in Workers :
    /\ pc[w] = "done"
    /\ call[w].op = "save"
    /\ Len(call[w].payload.gallery) = 2
    /\ call[w].payload.gallery[1].assetId # 0
    /\ db.mediaAssets = pre[w].mediaAssets
    /\ \E p, q \in db.projects :
         /\ p._id # q._id /\ q._id = call[w].projectId
         /\ p.gallery # <<>>
         /\ q.gallery[1].assetId = p.gallery[1].assetId
         /\ q.gallery[2].assetId = p.gallery[1].assetId


\* the list names the same label at two places
repeats(labels) ==
  \E i, j \in DOMAIN labels : i # j /\ labels[i] = labels[j]

\* C29: a saveDraft whose payload lists twice a service label, or a
\* collaborator label, that had no row when the call started ends with a
\* commit: the label has exactly one row and every entry of the project's
\* list refers to it.
RepeatedLabelResolvedOnce ==
  \A w \in Workers :
    LET payload == call[w].payload
    IN  (/\ call[w].op = "save"
         /\ pc[w] \in {"done", "failed"}
         /\ \/ /\ repeats(payload.services)
               /\ \A i \in DOMAIN payload.services :
                    \A x \in pre[w].services :
                      x.slug # slugifyTo(trim(payload.services[i]), 80)
            \/ /\ repeats(payload.collaborators)
               /\ \A i \in DOMAIN payload.collaborators :
                    \A x \in pre[w].collaborators :
                      x.displayName
                        # parseCollaboratorLabel(payload.collaborators[i]).displayName)
          => /\ pc[w] = "done"
             /\ outcome[w] = NoError
             /\ \A q \in db.projects :
                  q._id = call[w].projectId =>
                    /\ Len(q.services) = Len(payload.services)
                    /\ Len(q.collaborators) = Len(payload.collaborators)
                    /\ refersToItsLabels(db, q)
             /\ \A a, b \in db.services : a.slug = b.slug => a = b


\* the positions of a call whose transaction has committed
committedAt == {"done", "gcFind", "gcCheck", "gcRows", "gcBlobs"}

\* worker w is in an attempt of a saveDraft while worker v serves a
\* saveDraft of the same project that started from the same revision: v is
\* in its transaction too, or has committed since w read the project
savesOverlap(w, v) ==
  /\ w # v
  /\ call[w].op = "save" /\ call[v].op = "save"
  /\ call[w].projectId = call[v].projectId
  /\ revisionOf(pre[w], call[w].projectId)
       = revisionOf(pre[v], call[v].projectId)
  /\ pc[w] = "txn"
  /\ \/ pc[v] \in {"txn", "backoff"}
     \/ /\ pc[v] \in committedAt
        /\ log[v].revision = revisionOf(pre[w], call[w].projectId) + 1

\* C30: of two saveDraft calls on the same project that are served at the
\* same time and started from the same revision r, neither is rejected; the
\* one that commits after the other leaves the revision at r + 2 and the
\* project with its own content.
ConcurrentSavesBothCommit ==
  [][\A w, v \in Workers :
       savesOverlap(w, v) =>
         LET id == call[w].projectId
             r == revisionOf(pre[w], id)
         IN  /\ pc'[w] # "failed"
             /\ (pc'[w] \in committedAt /\ pc[v] \in committedAt) =>
                  /\ log'[w].errors # <<>>
                  /\ \A e \in Range(log'[w].errors) : e = WriteConflictError
                  /\ log'[w].revision = r + 2
                  /\ revisionOf(db', id) = r + 2
                  /\ \A p \in db'.projects :
                       p._id = id =>
                         /\ p.title = call[w].payload.title
                         /\ Len(p.gallery) = Len(call[w].payload.gallery)
                         /\ (p.hero.assetId = 0)
                              = IsBlankUrl(call[w].payload.heroImage)]_vars

\* two saves of project 1 with different payloads, started from the same
\* revision, have both committed, the second after a write conflict
BothSavesCommitted ==
  /\ \A w \in Workers :
       call[w].op = "save" /\ call[w].projectId = 1 /\ pc[w] = "done"
  /\ call["w1"].payload # call["w2"].payload
  /\ revisionOf(pre["w1"], 1) = revisionOf(pre["w2"], 1)
  /\ log["w1"].errors = <<>>
  /\ log["w2"].errors = <<WriteConflictError>>
  /\ log["w1"].revision = revisionOf(pre["w1"], 1) + 1
  /\ log["w2"].revision = log["w1"].revision + 1
  /\ revisionOf(db, 1) = log["w2"].revision

\* C31: no step of a createDraft, saveDraft, publish, deleteDraft, duplicate
\* or of a pass of the garbage collection changes or removes a
\* ProjectVersion or a ProjectHistoryEntry that exists: every row of the two
\* collections is still there, as it was, after the step, and neither
\* collection gets smaller.
VersionsAndHistoryAppendOnly ==
  [][/\ \A v \in db.projectVersions : v \in db'.projectVersions
     /\ \A h \in db.projectHistory : h \in db'.projectHistory
     /\ Cardinality(db'.projectVersions) >= Cardinality(db.projectVersions)
     /\ Cardinality(db'.projectHistory) >= Cardinality(db.projectHistory)]_vars

\* a deleteDraft has returned and the archived project still has the version
\* rows of its creation and of a later save, and the history entries of its
\* creation, of the save and of the delete
RowsOutliveTheirProject ==
  /\ pc["w1"] = "done"
  /\ call["w1"].op = "delete"
  /\ \E p \in db.projects :
       /\ p._id = call["w1"].projectId
       /\ p.deleted
       /\ \A n \in 1..2 :
            \E v \in db.projectVersions : v.projectId = p._id /\ v.version = n
       /\ \A action \in {"created", "saved", "deleted"} :
            \E h \in db.projectHistory :
              h.projectId = p._id /\ h.action = action

\* C32: in every committed state each PublishedProject snapshot has the slug
\* its project has now, no two snapshots have the same slug, and no call has
\* failed on the unique index of the snapshots' slugs.
SnapshotSlugsFollowProjects ==
  /\ \A x \in db.publishedProjects :
       \E p \in db.projects : p._id = x.projectId /\ p.slug = x.slug
  /\ \A x, y \in db.publishedProjects : x.slug = y.slug => x = y
  /\ \A w \in Workers :
       outcome[w] # DuplicateKeyError("uq_publishedProjects_slug")

\* a publish with a valid payload has failed on the unique index of the
\* snapshots' slugs, although no project held the slug it asked for
PublishMetStaleSnapshot ==
  /\ pc["w1"] = "failed"
  /\ call["w1"].op = "publish"
  /\ outcome["w1"] = DuplicateKeyError("uq_publishedProjects_slug")
  /\ \A p \in db.projects : p.slug # slugify(call["w1"].payload.slug)

\* C33: a payload that validateAdminPayload accepts in publish mode
\* (allowIncompleteMedia false) it accepts in draft mode too, and every
\* message it reports for a payload in draft mode it reports for the same
\* payload in publish mode.
StrictAtLeastAsStrongAsLoose ==
  formIn.asked =>
    LET strict == validateAdminPayload(formIn.payload, FALSE)
        loose == validateAdminPayload(formIn.payload, TRUE)
    IN  IF formIn.allowIncompleteMedia
          THEN formOut # NoError =>
                 Range(formOut.details) \subseteq Range(strict)
          ELSE formOut = NoError => loose = <<>>


====
